---------------------------- MODULE Spec2Model ----------------------------
(***************************************************************************)
(* The DDL-to-dbt-YAML converters ddl_to_dbt_dim_yaml.py ("dim") and       *)
(* ddl_to_dbt_stage_yaml.py ("stage").                                     *)
(*                                                                         *)
(* Text is a sequence of lexemes: a lexeme is either a maximal run of \w   *)
(* characters (a word: an identifier, a keyword, a number) or one single   *)
(* other character ("[", "]", "(", ")", ",", ".", " ", "\n").  Every       *)
(* regular expression of the scripts is translated to an operator over     *)
(* such sequences; \b holds exactly between a word and a non-word lexeme,  *)
(* \s matches " " and "\n", and "." (without DOTALL) matches everything    *)
(* but "\n".                                                               *)
(***************************************************************************)
EXTENDS Integers, Sequences, FiniteSets, TLC

VARIABLES
    variant,          \* "dim" | "stage": which of the two scripts runs
    yaml,             \* whether "import yaml" succeeded
    args,             \* the parsed command line (argparse namespace)
    sql,              \* the text of the .sql file
    ddl,              \* what the file was written from (recorded for the properties)
    pc,               \* position inside main()
    schema, table, body,
    raw_items, col_items, constraint_items,
    columns, inline_pks,
    pk_cols, inferred_bk, business_key_cols, surrogate_key,
    default_map,
    stdout, stderr, exit_code,
    type_text,        \* a data type text given to the helpers directly
    canonical,        \* canonical_base_type of it
    unknown_member    \* unknown_for_dtype of it

vars == <<variant, yaml, args, sql, ddl, pc, schema, table, body,
          raw_items, col_items, constraint_items, columns, inline_pks,
          pk_cols, inferred_bk, business_key_cols, surrogate_key,
          default_map, stdout, stderr, exit_code,
          type_text, canonical, unknown_member>>

---------------------------------------------------------------------------
(* Lexical classes ("" stands for no lexeme: before the start, after the end) *)

\* \s
IsSpace(t) == t \in {" ", "\n"}

\* \w+ : a word lexeme
IsWord(t) == t \notin {"", " ", "\n", "[", "]", "(", ")", ",", "."}

\* \d+ : a word made of digits only
IsDigits(t) == t \in {"0", "1", "2", "18", "50", "100"}

\* int() of a \d+ capture
IntOf(t) ==
    CASE t = "0" -> 0 [] t = "1" -> 1 [] t = "2" -> 2
      [] t = "18" -> 18 [] t = "50" -> 50 [] t = "100" -> 100
      [] OTHER -> 0

\* str.upper() of a word (the lower-case words the inputs use)
Upper(t) ==
    CASE t = "int" -> "INT" [] t = "nvarchar" -> "NVARCHAR"
      [] t = "decimal" -> "DECIMAL" [] t = "max" -> "MAX"
      [] t = "dbo" -> "DBO" [] t = "stg" -> "STG"
      [] t = "primary" -> "PRIMARY" [] t = "key" -> "KEY"
      [] t = "constraint" -> "CONSTRAINT" [] t = "unique" -> "UNIQUE"
      [] t = "not" -> "NOT" [] t = "null" -> "NULL"
      [] t = "create" -> "CREATE" [] t = "table" -> "TABLE"
      [] t = "DimUser" -> "DIMUSER" [] t = "Other" -> "OTHER"
      [] t = "bit" -> "BIT" [] t = "xml" -> "XML" [] t = "datetime2" -> "DATETIME2"
      [] t = "Decimal" -> "DECIMAL" [] t = "NVarChar" -> "NVARCHAR"
      [] t = "sysname" -> "SYSNAME" [] t = "Phone" -> "PHONE"
      [] OTHER -> t

\* str.lower() of a word
Lower(t) ==
    CASE t = "DBO" -> "dbo" [] t = "Dbo" -> "dbo" [] t = "STG" -> "stg"
      [] t = "T" -> "t" [] t = "DimUser" -> "dimuser" [] t = "DIMUSER" -> "dimuser"
      [] t = "Other" -> "other" [] t = "OTHER" -> "other"
      [] OTHER -> t

\* a keyword of a pattern compiled with re.IGNORECASE
Kw(t, k) == Upper(t) = k

At(s, i) == IF i \in 1..Len(s) THEN s[i] ELSE ""

\* the end of a greedy \s* that starts at i
RECURSIVE SkipSpace(_, _)
SkipSpace(s, i) ==
    IF i <= Len(s) /\ IsSpace(s[i]) THEN SkipSpace(s, i + 1) ELSE i

RECURSIVE SkipSpaceBack(_, _)
SkipSpaceBack(s, i) ==
    IF i >= 1 /\ IsSpace(s[i]) THEN SkipSpaceBack(s, i - 1) ELSE i

\* str.strip(), str.rstrip()
Strip(s) == SubSeq(s, SkipSpace(s, 1), SkipSpaceBack(s, Len(s)))
RStrip(s) == SubSeq(s, 1, SkipSpaceBack(s, Len(s)))

\* str.rstrip(",")
RECURSIVE RStripComma(_)
RStripComma(s) ==
    IF Len(s) > 0 /\ s[Len(s)] = "," THEN RStripComma(SubSeq(s, 1, Len(s) - 1)) ELSE s

Min(S) == CHOOSE x \in S : \A y \in S : x <= y
Max(S) == CHOOSE x \in S : \A y \in S : x >= y

\* \[(\w+)\] at i
NameAt(s, i) == At(s, i) = "[" /\ IsWord(At(s, i + 1)) /\ At(s, i + 2) = "]"

\* (?:\[(?P<schema>\w+)\]\.)?\[(?P<table>\w+)\] at i
QualNameAt(s, i) ==
    IF NameAt(s, i) /\ At(s, i + 3) = "." /\ NameAt(s, i + 4)
    THEN [ok |-> TRUE, schema |-> <<s[i + 1]>>, table |-> s[i + 5], next |-> i + 7]
    ELSE IF NameAt(s, i)
    THEN [ok |-> TRUE, schema |-> <<>>, table |-> s[i + 1], next |-> i + 3]
    ELSE [ok |-> FALSE, schema |-> <<>>, table |-> "", next |-> i]

---------------------------------------------------------------------------
(* DDL_CREATE_RE                                                           *)

\* CREATE\s+TABLE\s+ <name> \s*\( at i: the index of the "(" or 0
CreateHeadAt(s, i) ==
    LET j == SkipSpace(s, i + 1)
        k == SkipSpace(s, j + 1)
        q == QualNameAt(s, k)
        p == SkipSpace(s, q.next)
    IN  IF /\ Kw(At(s, i), "CREATE") /\ j > i + 1
           /\ Kw(At(s, j), "TABLE") /\ k > j + 1
           /\ q.ok /\ At(s, p) = "("
        THEN p ELSE 0

\* DDL_CREATE_RE.search(sql): (?P<body>.*) is greedy and DOTALL, so the
\* body runs to the last ")" of the text.
DDL_CREATE_RE_search(s) ==
    LET Starts == {i \in 1..Len(s) :
                      /\ CreateHeadAt(s, i) > 0
                      /\ \E r \in (CreateHeadAt(s, i) + 1)..Len(s) : s[r] = ")"}
    IN  IF Starts = {}
        THEN [found |-> FALSE, schema |-> <<>>, table |-> "", body |-> <<>>]
        ELSE LET i == Min(Starts)
                 p == CreateHeadAt(s, i)
                 q == QualNameAt(s, SkipSpace(s, SkipSpace(s, i + 1) + 1))
                 r == Max({x \in (p + 1)..Len(s) : s[x] = ")"})
             IN  [found |-> TRUE, schema |-> q.schema, table |-> q.table,
                  body |-> SubSeq(s, p + 1, r - 1)]

---------------------------------------------------------------------------
(* split_columns_block                                                     *)

\* a loop body that never looks at the depth: it splits at every comma
ScanStepEveryComma(st, ch) ==
    IF ch = ","
    THEN [raw_items |-> Append(st.raw_items, Strip(st.buf)), buf |-> <<>>,
          depth |-> st.depth]
    ELSE [raw_items |-> st.raw_items, buf |-> Append(st.buf, ch), depth |-> st.depth]

\* the body of "for ch in body": raw_items, buf, depth after the character ch
ScanStep(st, ch) ==
    LET d == IF ch = "(" THEN st.depth + 1
             ELSE IF ch = ")" THEN st.depth - 1 ELSE st.depth
    IN  IF ch = "," /\ d = 0
        THEN [raw_items |-> Append(st.raw_items, Strip(st.buf)), buf |-> <<>>,
              depth |-> d]
        ELSE [raw_items |-> st.raw_items, buf |-> Append(st.buf, ch), depth |-> d]

\* the loop over the characters lo..hi of the body, in order, from state st
\* (the range is halved, and the state after the first half is computed
\* before the second half is entered, so that the evaluation stays shallow)
RECURSIVE ScanBody(_, _, _, _)
ScanBody(b, lo, hi, st) ==
    IF lo > hi THEN st
    ELSE IF lo = hi THEN ScanStep(st, b[lo])
    ELSE LET mid  == (lo + hi) \div 2
             left == ScanBody(b, lo, mid, st)
         IN  IF Len(left.buf) >= 0 THEN ScanBody(b, mid + 1, hi, left) ELSE left

\* raw_items after the loop and the tail
RawItems(b) ==
    LET st == ScanBody(b, 1, Len(b), [raw_items |-> <<>>, buf |-> <<>>, depth |-> 0])
    IN  IF Strip(st.buf) # <<>> THEN Append(st.raw_items, Strip(st.buf))
        ELSE st.raw_items

\* \bPRIMARY\s+KEY\b at j
PrimaryKeyWordsAt(s, j) ==
    LET k == SkipSpace(s, j + 1)
    IN  Kw(At(s, j), "PRIMARY") /\ k > j + 1 /\ Kw(At(s, k), "KEY")

\* EMBEDDED_TBL_CONSTRAINT_RE (dim) and EMBEDDED_PK_RE (stage): what may
\* follow the CONSTRAINT word
EmbeddedTargetAt(v, s, j) ==
    \/ PrimaryKeyWordsAt(s, j)
    \/ v = "dim" /\ Kw(At(s, j), "UNIQUE")

\* .search(it).start() of the embedded-constraint pattern, or 0
EmbeddedStart(v, it) ==
    LET S == {i \in 1..Len(it) :
                 /\ Kw(it[i], "CONSTRAINT")
                 /\ \E j \in (i + 1)..Len(it) : EmbeddedTargetAt(v, it, j)}
    IN  IF S = {} THEN 0 ELSE Min(S)

\* re.match(r"^\s*\[", it)
StartsLikeColumn(it) == At(it, SkipSpace(it, 1)) = "["

\* a classification loop that passes over an empty item
RECURSIVE ClassifySkipEmpty(_, _, _, _, _)
ClassifySkipEmpty(v, items, i, cols, cons) ==
    IF i > Len(items) THEN [cols |-> cols, cons |-> cons]
    ELSE LET it == items[i]
             st == EmbeddedStart(v, it)
         IN  IF it = <<>> THEN ClassifySkipEmpty(v, items, i + 1, cols, cons)
             ELSE IF StartsLikeColumn(it)
             THEN IF st > 0
                  THEN LET head == RStripComma(RStrip(SubSeq(it, 1, st - 1)))
                           tail == Strip(SubSeq(it, st, Len(it)))
                       IN  ClassifySkipEmpty(v, items, i + 1,
                               IF head # <<>> THEN Append(cols, head) ELSE cols,
                               IF tail # <<>> THEN Append(cons, tail) ELSE cons)
                  ELSE ClassifySkipEmpty(v, items, i + 1, Append(cols, Strip(it)), cons)
             ELSE ClassifySkipEmpty(v, items, i + 1, cols, Append(cons, Strip(it)))

\* the classification loop of split_columns_block
RECURSIVE Classify(_, _, _, _, _)
Classify(v, items, i, cols, cons) ==
    IF i > Len(items) THEN [cols |-> cols, cons |-> cons]
    ELSE LET it == items[i]
             st == EmbeddedStart(v, it)
         IN  IF StartsLikeColumn(it)
             THEN IF st > 0
                  THEN LET head == RStripComma(RStrip(SubSeq(it, 1, st - 1)))
                           tail == Strip(SubSeq(it, st, Len(it)))
                       IN  Classify(v, items, i + 1,
                               IF head # <<>> THEN Append(cols, head) ELSE cols,
                               IF tail # <<>> THEN Append(cons, tail) ELSE cons)
                  ELSE Classify(v, items, i + 1, Append(cols, Strip(it)), cons)
             ELSE Classify(v, items, i + 1, cols, Append(cons, Strip(it)))

split_columns_block(v, b) ==
    LET r == Classify(v, RawItems(b), 1, <<>>, <<>>)
    IN  [raw |-> RawItems(b), cols |-> r.cols, cons |-> r.cons]

---------------------------------------------------------------------------
(* Key constraints                                                         *)

\* BRACKETED_COL_RE.findall(s)
RECURSIVE BracketedCols(_, _)
BracketedCols(s, i) ==
    IF i > Len(s) THEN <<>>
    ELSE LET j == SkipSpace(s, i + 1)
             k == SkipSpace(s, j + 1)
         IN  IF s[i] = "[" /\ IsWord(At(s, j)) /\ At(s, k) = "]"
             THEN <<s[j]>> \o BracketedCols(s, k + 1)
             ELSE BracketedCols(s, i + 1)

\* (?:\s+CLUSTERED|\s+NONCLUSTERED)?\s*\((?P<cols>.*?)\) from i on: the
\* indices of the "(" and of the first ")" after it, or <<0, 0>>
ColsGroupFrom(s, i) ==
    LET j == SkipSpace(s, i)
        p == IF j > i /\ (Kw(At(s, j), "CLUSTERED") \/ Kw(At(s, j), "NONCLUSTERED"))
             THEN SkipSpace(s, j + 1) ELSE j
        C == {r \in (p + 1)..Len(s) : s[r] = ")"}
    IN  IF At(s, p) = "(" /\ C # {} THEN <<p, Min(C)>> ELSE <<0, 0>>

\* PRIMARY\s+KEY ... (cols) at p
PrimaryKeyAt(s, p) ==
    IF PrimaryKeyWordsAt(s, p)
    THEN ColsGroupFrom(s, SkipSpace(s, p + 1) + 1)
    ELSE <<0, 0>>

\* PRIMARY_KEY_RE.search(c): [found, cols]
PRIMARY_KEY_RE_search(c) ==
    LET S == {p \in 1..Len(c) : PrimaryKeyAt(c, p)[1] > 0}
    IN  IF S = {} THEN [found |-> FALSE, cols |-> <<>>]
        ELSE LET g == PrimaryKeyAt(c, Min(S))
             IN  [found |-> TRUE, cols |-> SubSeq(c, g[1] + 1, g[2] - 1)]

\* UNIQUE ... (cols) at p
UniqueAt(s, p) ==
    IF Kw(At(s, p), "UNIQUE") THEN ColsGroupFrom(s, p + 1) ELSE <<0, 0>>

\* UNIQUE_CONSTRAINT_RE.search(c): [found, cols]
UNIQUE_CONSTRAINT_RE_search(c) ==
    LET S == {p \in 1..Len(c) : UniqueAt(c, p)[1] > 0}
    IN  IF S = {} THEN [found |-> FALSE, cols |-> <<>>]
        ELSE LET g == UniqueAt(c, Min(S))
             IN  [found |-> TRUE, cols |-> SubSeq(c, g[1] + 1, g[2] - 1)]

\* UNIQUE_INDEX_RE at i: [ok, schema, table, cols, end]
UniqueIndexAt(s, i) ==
    LET a  == SkipSpace(s, i + 1)                 \* UNIQUE
        b  == SkipSpace(s, a + 1)                 \* CLUSTERED | NONCLUSTERED | INDEX
        kw == Kw(At(s, b), "CLUSTERED") \/ Kw(At(s, b), "NONCLUSTERED")
        c  == IF kw THEN SkipSpace(s, b + 1) ELSE b    \* INDEX
        \* \s+(?:...)?\s+ : without the keyword the two \s+ share one run of
        \* white space, which must then hold two lexemes at least
        gap == IF kw THEN b > a + 1 /\ c > b + 1 ELSE b > a + 2
        d  == SkipSpace(s, c + 1)                 \* [name]
        e  == SkipSpace(s, d + 3)                 \* ON
        f  == SkipSpace(s, e + 1)                 \* [schema].[table]
        q  == QualNameAt(s, f)
        p  == SkipSpace(s, q.next)
        C  == {r \in (p + 1)..Len(s) : s[r] = ")"}
    IN  IF /\ Kw(At(s, i), "CREATE") /\ a > i + 1 /\ Kw(At(s, a), "UNIQUE")
           /\ gap /\ Kw(At(s, c), "INDEX")
           /\ d > c + 1 /\ NameAt(s, d)
           /\ e > d + 3 /\ Kw(At(s, e), "ON") /\ f > e + 1
           /\ q.ok /\ At(s, p) = "(" /\ C # {}
        THEN [ok |-> TRUE, schema |-> q.schema, table |-> q.table,
              cols |-> SubSeq(s, p + 1, Min(C) - 1), end |-> Min(C)]
        ELSE [ok |-> FALSE, schema |-> <<>>, table |-> "", cols |-> <<>>, end |-> i]

\* UNIQUE_INDEX_RE.finditer(s), from i on
RECURSIVE UniqueIndexMatches(_, _)
UniqueIndexMatches(s, i) ==
    LET P == {p \in i..Len(s) : Kw(s[p], "CREATE") /\ UniqueIndexAt(s, p).ok}
    IN  IF P = {} THEN <<>>
        ELSE LET m == UniqueIndexAt(s, Min(P))
             IN  <<m>> \o UniqueIndexMatches(s, m.end + 1)

---------------------------------------------------------------------------
(* DEFAULT_FOR_RE and parse_default_alters                                 *)

\* DEFAULT_FOR_RE at i: [ok, expr, col, end]
DefaultForAt(s, i) ==
    LET a == SkipSpace(s, i + 1)                  \* TABLE
        b == SkipSpace(s, a + 1)                  \* [schema].[table]
        q == QualNameAt(s, b)
        c == SkipSpace(s, q.next)                 \* ADD
        d == SkipSpace(s, c + 1)                  \* CONSTRAINT
        e == SkipSpace(s, d + 1)                  \* [name]
        f == SkipSpace(s, e + 3)                  \* DEFAULT
        p == SkipSpace(s, f + 1)                  \* (
        \* (?P<expr>.*?)\)\s+FOR\s+\[(?P<col>\w+)\] : the first ")" that
        \* " FOR [col]" follows
        ForAfter(r) == LET g == SkipSpace(s, r + 1)
                           h == SkipSpace(s, g + 1)
                       IN  g > r + 1 /\ Kw(At(s, g), "FOR") /\ h > g + 1 /\ NameAt(s, h)
        R == {r \in (p + 1)..Len(s) : s[r] = ")" /\ ForAfter(r)}
    IN  IF /\ Kw(At(s, i), "ALTER") /\ a > i + 1 /\ Kw(At(s, a), "TABLE")
           /\ b > a + 1 /\ q.ok
           /\ c > q.next /\ Kw(At(s, c), "ADD")
           /\ d > c + 1 /\ Kw(At(s, d), "CONSTRAINT")
           /\ e > d + 1 /\ NameAt(s, e)
           /\ f > e + 3 /\ Kw(At(s, f), "DEFAULT")
           /\ At(s, p) = "(" /\ R # {}
        THEN LET r == Min(R)
                 h == SkipSpace(s, SkipSpace(s, r + 1) + 1)
             IN  [ok |-> TRUE, expr |-> Strip(SubSeq(s, p + 1, r - 1)),
                  col |-> s[h + 1], end |-> h + 2]
        ELSE [ok |-> FALSE, expr |-> <<>>, col |-> "", end |-> i]

\* a scan that keeps only the statements naming the table of the file's
\* CREATE TABLE
RECURSIVE DefaultAltersOwnTable(_, _, _)
DefaultAltersOwnTable(s, i, map) ==
    LET P == {p \in i..Len(s) : Kw(s[p], "ALTER") /\ DefaultForAt(s, p).ok}
    IN  IF P = {} THEN map
        ELSE LET m == DefaultForAt(s, Min(P))
                 q == QualNameAt(s, SkipSpace(s, SkipSpace(s, Min(P) + 1) + 1))
             IN  DefaultAltersOwnTable(s, m.end + 1,
                     IF q.table # DDL_CREATE_RE_search(s).table THEN map
                     ELSE [c \in DOMAIN map \cup {m.col} |->
                              IF c = m.col THEN m.expr ELSE map[c]])

\* the dict comprehension over DEFAULT_FOR_RE.finditer(sql): a later match
\* for the same column replaces the earlier one
RECURSIVE DefaultAlters(_, _, _)
DefaultAlters(s, i, map) ==
    LET P == {p \in i..Len(s) : Kw(s[p], "ALTER") /\ DefaultForAt(s, p).ok}
    IN  IF P = {} THEN map
        ELSE LET m == DefaultForAt(s, Min(P))
             IN  DefaultAlters(s, m.end + 1,
                     [c \in DOMAIN map \cup {m.col} |->
                         IF c = m.col THEN m.expr ELSE map[c]])

parse_default_alters(s) == DefaultAlters(s, 1, <<>>)

---------------------------------------------------------------------------
(* COLUMN_LINE_RE and parse_columns                                        *)

\* (?:\s*\(\s*(?:MAX|\d+(?:\s*,\s*\d+)?)\s*\))? after the type word that
\* ends at e: the index of the closing ")" or e when the group is absent
PrecisionEnd(s, e) ==
    LET p  == SkipSpace(s, e + 1)
        q  == SkipSpace(s, p + 1)
        c  == SkipSpace(s, q + 1)                 \* "," or ")"
        d2 == SkipSpace(s, c + 1)                 \* second number
        z  == SkipSpace(s, d2 + 1)
    IN  IF At(s, p) # "(" THEN e
        ELSE IF Kw(At(s, q), "MAX") /\ At(s, c) = ")" THEN c
        ELSE IF IsDigits(At(s, q)) /\ At(s, c) = ")" THEN c
        ELSE IF IsDigits(At(s, q)) /\ At(s, c) = "," /\ IsDigits(At(s, d2)) /\ At(s, z) = ")"
             THEN z
        ELSE e

\* COLUMN_LINE_RE.match(raw): [ok, name, dtype, rest]
COLUMN_LINE_RE_match(raw) ==
    LET i == SkipSpace(raw, 1)
        j == SkipSpace(raw, i + 3)                \* start of dtype
        w == IF At(raw, j) = "[" THEN j + 1 ELSE j    \* the type word
        e == IF At(raw, w + 1) = "]" THEN w + 1 ELSE w
        z == PrecisionEnd(raw, e)
        \* (?P<rest>.*)$ : no "\n" up to the end, or to a final "\n"
        restEnd == IF At(raw, Len(raw)) = "\n" /\ Len(raw) > z THEN Len(raw) - 1 ELSE Len(raw)
    IN  IF /\ NameAt(raw, i) /\ j > i + 3 /\ IsWord(At(raw, w))
           /\ \A k \in (z + 1)..restEnd : raw[k] # "\n"
        THEN [ok |-> TRUE, name |-> raw[i + 1], dtype |-> SubSeq(raw, j, z),
              rest |-> SubSeq(raw, z + 1, restEnd)]
        ELSE [ok |-> FALSE, name |-> "", dtype |-> <<>>, rest |-> <<>>]

\* re.sub(r"[\[\]]", "", s)
RemoveBrackets(s) == SelectSeq(s, LAMBDA t : t \notin {"[", "]"})

\* str.upper() of a text
UpperText(s) == [k \in 1..Len(s) |-> Upper(s[k])]

\* an IDENTITY match whose two captures are taken the other way round
IdentityAtSwapped(s, i) ==
    LET p == SkipSpace(s, i + 1)
        a == SkipSpace(s, p + 1)
        c == SkipSpace(s, a + 1)
        b == SkipSpace(s, c + 1)
        z == SkipSpace(s, b + 1)
    IN  IF /\ Kw(At(s, i), "IDENTITY") /\ At(s, p) = "(" /\ IsDigits(At(s, a))
           /\ At(s, c) = "," /\ IsDigits(At(s, b)) /\ At(s, z) = ")"
        THEN [ok |-> TRUE, seed |-> IntOf(s[b]), increment |-> IntOf(s[a])]
        ELSE [ok |-> FALSE, seed |-> 0, increment |-> 0]

\* IDENTITY\s*\(\s*(\d+)\s*,\s*(\d+)\s*\) at i: [ok, seed, increment]
IdentityAt(s, i) ==
    LET p == SkipSpace(s, i + 1)
        a == SkipSpace(s, p + 1)
        c == SkipSpace(s, a + 1)
        b == SkipSpace(s, c + 1)
        z == SkipSpace(s, b + 1)
    IN  IF /\ Kw(At(s, i), "IDENTITY") /\ At(s, p) = "(" /\ IsDigits(At(s, a))
           /\ At(s, c) = "," /\ IsDigits(At(s, b)) /\ At(s, z) = ")"
        THEN [ok |-> TRUE, seed |-> IntOf(s[a]), increment |-> IntOf(s[b])]
        ELSE [ok |-> FALSE, seed |-> 0, increment |-> 0]

\* re.search of the IDENTITY pattern: None, or {"seed": .., "increment": ..}
IdentityOf(rest) ==
    LET S == {i \in 1..Len(rest) : IdentityAt(rest, i).ok}
    IN  IF S = {} THEN <<>>
        ELSE LET m == IdentityAt(rest, Min(S))
             IN  <<[seed |-> m.seed, increment |-> m.increment]>>

\* a search for the very text "NOT NULL": upper case, one space
HasNotNullVerbatim(rest) ==
    \E i \in 1..Len(rest) :
        rest[i] = "NOT" /\ At(rest, i + 1) = " " /\ At(rest, i + 2) = "NULL"

\* re.search(r"\bNOT\s+NULL\b", rest)
HasNotNull(rest) ==
    \E i \in 1..Len(rest) :
        LET k == SkipSpace(rest, i + 1)
        IN  Kw(rest[i], "NOT") /\ k > i + 1 /\ Kw(At(rest, k), "NULL")

\* \b between the lexemes e-1 and e
Boundary(s, e) == IsWord(At(s, e - 1)) # IsWord(At(s, e))

\* the end (exclusive) of group 1 of \bDEFAULT\s+(\(?.*?\)?)\b when the
\* lazy part starts at a and has grown to a+n; 0 when there is no match
RECURSIVE LazyDefaultEnd(_, _)
LazyDefaultEnd(s, x) ==
    IF At(s, x) = ")" /\ Boundary(s, x + 1) THEN x + 1
    ELSE IF Boundary(s, x) THEN x
    ELSE IF x > Len(s) \/ s[x] = "\n" THEN 0
    ELSE LazyDefaultEnd(s, x + 1)

\* \bDEFAULT\s+(\(?.*?\)?)\b at i: [ok, text]
InlineDefaultAt(s, i) ==
    LET g == SkipSpace(s, i + 1)
        a == IF At(s, g) = "(" THEN g + 1 ELSE g
        e == LazyDefaultEnd(s, a)
    IN  IF Kw(At(s, i), "DEFAULT") /\ g > i + 1 /\ e > 0
        THEN [ok |-> TRUE, text |-> Strip(SubSeq(s, g, e - 1))]
        ELSE [ok |-> FALSE, text |-> <<>>]

\* inline_default: None (<<>>) or the captured text (<<text>>)
InlineDefaultOf(rest) ==
    LET S == {i \in 1..Len(rest) : InlineDefaultAt(rest, i).ok}
    IN  IF S = {} THEN <<>> ELSE <<InlineDefaultAt(rest, Min(S)).text>>

\* re.search(r"\bPRIMARY\s+KEY\b", s)
HasPrimaryKeyWords(s) == \E j \in 1..Len(s) : PrimaryKeyWordsAt(s, j)

\* the record parse_columns appends for a matching item
ColumnRecord(m) ==
    LET rest == Strip(m.rest)
    IN  [name |-> m.name,
         data_type |-> UpperText(RemoveBrackets(Strip(m.dtype))),
         nullable |-> ~HasNotNull(rest),
         identity |-> IdentityOf(rest),
         inline_default |-> InlineDefaultOf(rest)]

\* a loop that ends at the first item the pattern does not match
RECURSIVE parse_columns_stop(_)
parse_columns_stop(items) ==
    IF items = <<>> THEN <<>>
    ELSE LET m == COLUMN_LINE_RE_match(Head(items))
         IN  IF m.ok THEN <<ColumnRecord(m)>> \o parse_columns_stop(Tail(items)) ELSE <<>>

\* parse_columns: the column records, in the order of the items
RECURSIVE parse_columns(_)
parse_columns(items) ==
    IF items = <<>> THEN <<>>
    ELSE LET m == COLUMN_LINE_RE_match(Head(items))
         IN  (IF m.ok THEN <<ColumnRecord(m)>> ELSE <<>>) \o parse_columns(Tail(items))

\* parse_columns (stage): the second result, inline_pks
RECURSIVE parse_inline_pks(_)
parse_inline_pks(items) ==
    IF items = <<>> THEN <<>>
    ELSE LET m == COLUMN_LINE_RE_match(Head(items))
         IN  (IF m.ok /\ HasPrimaryKeyWords(Strip(m.rest)) THEN <<m.name>> ELSE <<>>)
                 \o parse_inline_pks(Tail(items))

---------------------------------------------------------------------------
(* Unknown-member values                                                   *)

\* "".join of a text
RECURSIVE Join(_)
Join(s) == IF s = <<>> THEN "" ELSE Head(s) \o Join(Tail(s))

\* canonical_base_type: brackets removed, upper-cased, \s*\(.*\)$ removed
canonical_base_type(dtype) ==
    LET t == UpperText(Strip(RemoveBrackets(dtype)))
        E == IF At(t, Len(t)) = "\n" THEN Len(t) - 1 ELSE Len(t)
        P == {p \in 1..(E - 1) :
                 /\ t[p] = "(" /\ t[E] = ")"
                 /\ \A k \in (p + 1)..(E - 1) : t[k] # "\n"}
    IN  IF P = {} THEN t
        ELSE SubSeq(t, 1, SkipSpaceBack(t, Min(P) - 1)) \o SubSeq(t, E + 1, Len(t))

NUMERIC_BASES ==
    {"TINYINT", "SMALLINT", "INT", "BIGINT", "DECIMAL", "NUMERIC", "FLOAT",
     "REAL", "MONEY", "SMALLMONEY", "BIT"}

\* a numeric table in which every base has -1
UnknownNumberMinusOne(base) == -1

\* UNKNOWN_BY_TYPE restricted to NUMERIC_BASES
UnknownNumber(base) == IF base \in {"TINYINT", "BIT"} THEN 0 ELSE -1

\* UNKNOWN_BY_TYPE.get(base, "Unknown") for the other bases
UnknownString(base) ==
    CASE base \in {"NVARCHAR", "VARCHAR", "TEXT", "NTEXT"} -> "Unknown"
      [] base \in {"NCHAR", "CHAR"} -> "U"
      [] base = "UNIQUEIDENTIFIER" -> "00000000-0000-0000-0000-000000000000"
      [] base = "DATE" -> "1900-01-01"
      [] base = "TIME" -> "00:00:00"
      [] base \in {"DATETIME", "SMALLDATETIME", "DATETIME2"} -> "1900-01-01T00:00:00"
      [] base = "DATETIMEOFFSET" -> "1900-01-01T00:00:00Z"
      [] base \in {"BINARY", "VARBINARY"} -> "0x"
      [] base = "XML" -> "<unknown/>"
      [] OTHER -> "Unknown"

\* an unknown_for_dtype that never wraps its strings in SingleQuoted
unknown_for_dtype_plain(y, dtype) ==
    LET base == Join(canonical_base_type(dtype))
    IN  IF base \in NUMERIC_BASES
        THEN [type |-> "int", int |-> UnknownNumber(base), str |-> ""]
        ELSE [type |-> "str", int |-> 0, str |-> UnknownString(base)]

\* unknown_for_dtype: a number, or a string that is a SingleQuoted when the
\* yaml module is there and a plain str when it is not
unknown_for_dtype(y, dtype) ==
    LET base == Join(canonical_base_type(dtype))
    IN  IF base \in NUMERIC_BASES
        THEN [type |-> "int", int |-> UnknownNumber(base), str |-> ""]
        ELSE [type |-> IF y THEN "SingleQuoted" ELSE "str", int |-> 0,
              str |-> UnknownString(base)]

---------------------------------------------------------------------------
(* Key resolution                                                          *)

\* the first loop of parse_primary_key / parse_primary_key_from_constraints
RECURSIVE TablePrimaryKey(_)
TablePrimaryKey(constraints) ==
    IF constraints = <<>> THEN [found |-> FALSE, cols |-> <<>>]
    ELSE LET m == PRIMARY_KEY_RE_search(Head(constraints))
         IN  IF m.found THEN [found |-> TRUE, cols |-> BracketedCols(m.cols, 1)]
             ELSE TablePrimaryKey(Tail(constraints))

parse_primary_key_from_constraints(constraints) == TablePrimaryKey(constraints).cols

\* the second loop of parse_primary_key (dim): inline single-column keys
RECURSIVE InlinePrimaryKeys(_)
InlinePrimaryKeys(items) ==
    IF items = <<>> THEN <<>>
    ELSE LET raw == Head(items)
             m   == COLUMN_LINE_RE_match(raw)
         IN  (IF HasPrimaryKeyWords(raw) /\ m.ok THEN <<m.name>> ELSE <<>>)
                 \o InlinePrimaryKeys(Tail(items))

\* parse_primary_key (dim)
parse_primary_key(constraints, items) ==
    IF TablePrimaryKey(constraints).found
    THEN TablePrimaryKey(constraints).cols
    ELSE InlinePrimaryKeys(items)

\* the merge loop of main (stage): first occurrences, order kept
RECURSIVE Dedup(_, _)
Dedup(s, seen) ==
    IF s = <<>> THEN <<>>
    ELSE IF Head(s) \in seen THEN Dedup(Tail(s), seen)
    ELSE <<Head(s)>> \o Dedup(Tail(s), seen \cup {Head(s)})

\* a merge that keeps the repetitions
MergeKeepingRepeats(table_pks, inline) == table_pks \o inline

MergePrimaryKeys(table_pks, inline) == Dedup(table_pks \o inline, {})

\* str.split(",")
RECURSIVE SplitComma(_, _)
SplitComma(s, buf) ==
    IF s = <<>> THEN <<buf>>
    ELSE IF Head(s) = "," THEN <<buf>> \o SplitComma(Tail(s), <<>>)
    ELSE SplitComma(Tail(s), Append(buf, Head(s)))

\* [c.strip() for c in value.split(",") if c.strip()]
RECURSIVE StrippedNonEmpty(_)
StrippedNonEmpty(parts) ==
    IF parts = <<>> THEN <<>>
    ELSE (IF Strip(Head(parts)) # <<>> THEN <<Join(Strip(Head(parts)))>> ELSE <<>>)
             \o StrippedNonEmpty(Tail(parts))

CliList(value) == StrippedNonEmpty(SplitComma(value, <<>>))

\* an optional command-line value: <<>> when the flag is absent, <<text>>
\* when given; Python's truth test of it
Truthy(opt) == opt # <<>> /\ opt[1] # <<>>

\* a pk_cols in which the --pk list, when given, replaces the DDL's key
StagePrimaryKeyFlagFirst(constraints, inline, cli) ==
    LET merged == MergePrimaryKeys(parse_primary_key_from_constraints(constraints), inline)
    IN  IF Truthy(cli) THEN CliList(cli[1]) ELSE merged

\* pk_cols of main (stage)
StagePrimaryKey(constraints, inline, cli) ==
    LET merged == MergePrimaryKeys(parse_primary_key_from_constraints(constraints), inline)
    IN  IF merged = <<>> /\ Truthy(cli) THEN CliList(cli[1]) ELSE merged

\* the first loop of parse_unique_business_key
RECURSIVE UniqueConstraintCols(_)
UniqueConstraintCols(constraints) ==
    IF constraints = <<>> THEN <<>>
    ELSE LET m    == UNIQUE_CONSTRAINT_RE_search(Head(constraints))
             cols == BracketedCols(m.cols, 1)
         IN  IF m.found /\ cols # <<>> THEN cols
             ELSE UniqueConstraintCols(Tail(constraints))

\* a second loop that takes the first index, whatever table it is on
UniqueIndexColsAnyTable(ms, sch, tbl) ==
    IF ms = <<>> THEN <<>> ELSE BracketedCols(Head(ms).cols, 1)

\* the second loop of parse_unique_business_key
RECURSIVE UniqueIndexCols(_, _, _)
UniqueIndexCols(ms, sch, tbl) ==
    IF ms = <<>> THEN <<>>
    ELSE LET m    == Head(ms)
             s    == IF m.schema = <<>> THEN "dbo" ELSE m.schema[1]
             mine == /\ Lower(s) = Lower(IF sch = "" THEN "dbo" ELSE sch)
                     /\ Lower(m.table) = Lower(tbl)
             cols == BracketedCols(m.cols, 1)
         IN  IF mine /\ cols # <<>> THEN cols
             ELSE UniqueIndexCols(Tail(ms), sch, tbl)

\* a business key that adds the index columns to the constraint's
parse_unique_business_key_merged(s, constraints, sch, tbl) ==
    UniqueConstraintCols(constraints) \o UniqueIndexCols(UniqueIndexMatches(s, 1), sch, tbl)

parse_unique_business_key(s, constraints, sch, tbl) ==
    IF UniqueConstraintCols(constraints) # <<>>
    THEN UniqueConstraintCols(constraints)
    ELSE UniqueIndexCols(UniqueIndexMatches(s, 1), sch, tbl)

---------------------------------------------------------------------------
(* Emission                                                                *)

\* a choice that prefers the inline default to the ALTER TABLE one
DefaultExprInlineFirst(c, map) ==
    IF c.inline_default # <<>> /\ c.inline_default[1] # <<>> THEN c.inline_default[1]
    ELSE IF c.name \in DOMAIN map THEN map[c.name]
    ELSE <<>>

\* default_map.get(c["name"]) or c.get("inline_default"): "" when falsy
DefaultExpr(c, map) ==
    IF c.name \in DOMAIN map /\ map[c.name] # <<>> THEN map[c.name]
    ELSE IF c.inline_default # <<>> THEN c.inline_default[1]
    ELSE <<>>

\* a per-column meta that writes unknown_member in both scripts
ColumnMetaBothUnknown(v, y, c, map) ==
    [nullable |-> c.nullable, unknown_member |-> unknown_for_dtype(y, c.data_type)]
      @@ (IF c.identity # <<>> THEN [identity |-> c.identity[1]] ELSE <<>>)
      @@ (IF DefaultExpr(c, map) # <<>> THEN [default_expression |-> DefaultExpr(c, map)] ELSE <<>>)

\* the per-column meta of both emitters
ColumnMeta(v, y, c, map) ==
    [nullable |-> c.nullable]
      @@ (IF v = "dim" THEN [unknown_member |-> unknown_for_dtype(y, c.data_type)] ELSE <<>>)
      @@ (IF c.identity # <<>> THEN [identity |-> c.identity[1]] ELSE <<>>)
      @@ (IF DefaultExpr(c, map) # <<>> THEN [default_expression |-> DefaultExpr(c, map)] ELSE <<>>)

\* an emitter loop that walks the columns from the last to the first
EmitColumnsReversed(v, y, cols, map) ==
    [i \in 1..Len(cols) |->
        [name |-> cols[Len(cols) + 1 - i].name, description |-> "",
         data_type |-> cols[Len(cols) + 1 - i].data_type,
         meta |-> ColumnMeta(v, y, cols[Len(cols) + 1 - i], map)]]

\* the loop "for c in columns" of both emitters
EmitColumns(v, y, cols, map) ==
    [i \in 1..Len(cols) |->
        [name |-> cols[i].name, description |-> "",
         data_type |-> cols[i].data_type, meta |-> ColumnMeta(v, y, cols[i], map)]]

\* a dimension emitter that writes the two keys only when they have a value
emit_dim_yaml_sparse(y, tbl, cols, surrogate, bk, map) ==
    [models |-> <<[name |-> tbl, description |-> "",
                   meta |-> (IF bk # <<>> THEN [business_key |-> bk] ELSE <<>>)
                            @@ (IF surrogate # <<>> /\ surrogate # <<"">>
                                THEN [surrogate_key |-> surrogate[1]] ELSE <<>>),
                   columns |-> EmitColumns("dim", y, cols, map)]>>]

\* emit_dim_yaml: the document (surrogate is None, <<>>, or <<text>>)
emit_dim_yaml(y, tbl, cols, surrogate, bk, map) ==
    [models |-> <<[name |-> tbl, description |-> "",
                   meta |-> [business_key |-> bk,
                             surrogate_key |-> IF surrogate = <<>> THEN "" ELSE surrogate[1]],
                   columns |-> EmitColumns("dim", y, cols, map)]>>]

\* a staging emitter that writes primary_key whatever the list holds
emit_stage_yaml_always(tbl, cols, pk, map, version) ==
    [version |-> version,
     models |-> <<[name |-> tbl, description |-> "",
                   meta |-> [primary_key |-> pk],
                   columns |-> EmitColumns("stage", FALSE, cols, map)]>>]

\* emit_stage_yaml: the document
emit_stage_yaml(tbl, cols, pk, map, version) ==
    [version |-> version,
     models |-> <<[name |-> tbl, description |-> "",
                   meta |-> IF pk # <<>> THEN [primary_key |-> pk] ELSE <<>>,
                   columns |-> EmitColumns("stage", FALSE, cols, map)]>>]

---------------------------------------------------------------------------
(* Input files.  A file is written from a description: the column forms   *)
(* of the table (the i-th column is named ColName(i)), its table-level     *)
(* constraints, where the constraints stand, and the statements before and *)
(* after the CREATE TABLE.                                                 *)

MaxCols == 2          \* columns of a generated table
MaxBodyLen == 4       \* lexemes of a free-form body
MaxItems == 3         \* items of a body of well-formed and malformed items

ColName(i) == <<"A", "B", "C", "D">>[i]

Br(n) == <<"[", n, "]">>

ColForms == {"int_nn", "nv_null", "dec", "ident", "pk_inline", "pk_named"}

ColText(f, n) ==
    Br(n) \o <<" ">> \o
    CASE f = "int_nn"    -> <<"INT", " ", "NOT", " ", "NULL">>
      [] f = "nv_null"   -> <<"[", "nvarchar", "]", "(", "50", ")", " ", "NULL">>
      [] f = "dec"       -> <<"DECIMAL", "(", "18", ",", " ", "2", ")">>
      [] f = "ident"     -> <<"[", "int", "]", " ", "IDENTITY", "(", "1", ",", "1", ")",
                              " ", "NOT", " ", "NULL">>
      [] f = "pk_inline" -> <<"INT", " ", "NOT", " ", "NULL", " ", "PRIMARY", " ", "KEY">>
      [] f = "pk_named"  -> <<"INT", " ", "NOT", " ", "NULL", " ", "CONSTRAINT", " ">>
                              \o Br("PK_c") \o <<" ", "PRIMARY", " ", "KEY">>
      [] f = "lower_nn"  -> <<"[", "int", "]", " ", "not", " ", "null">>
      [] f = "wide_nn"   -> <<"INT", " ", "NOT", " ", " ", "NULL">>
      [] f = "def_0"     -> <<"INT", " ", "NOT", " ", "NULL", " ", "DEFAULT", " ", "0">>
      [] f = "def_p0"    -> <<"INT", " ", "NOT", " ", "NULL", " ", "DEFAULT", " ", "(", "0", ")">>
      [] f = "def_pp0"   -> <<"INT", " ", "DEFAULT", " ", "(", "(", "0", ")", ")",
                              " ", "NOT", " ", "NULL">>
      [] f = "def_fn"    -> <<"DATETIME", " ", "NOT", " ", "NULL", " ", "DEFAULT", " ",
                              "(", "getdate", "(", ")", ")">>
      [] f = "ident_pk"  -> <<"[", "int", "]", " ", "IDENTITY", "(", "1", ",", "1", ")",
                              " ", "NOT", " ", "NULL", " ", "PRIMARY", " ", "KEY">>
      [] f = "ident_wide" -> <<"INT", " ", "IDENTITY", " ", "(", "1", ",", " ", "2", ")",
                               " ", "NULL">>
      [] f = "dec_br"    -> <<"[", "decimal", "]", "(", "18", ",", " ", "2", ")", " ", "NULL">>
      [] f = "nv_max"    -> <<"[", "nvarchar", "]", "(", "MAX", ")", " ", "NOT", " ", "NULL">>
      [] f = "double_prec" -> <<"DOUBLE", " ", "PRECISION", " ", "NULL">>
      [] f = "udt"       -> <<"[", "dbo", "]", ".", "[", "Phone", "]", " ", "NOT", " ", "NULL">>

\* what each way of writing a column says: whether it is marked NOT NULL
FormNotNull(f) ==
    f \in {"int_nn", "ident", "pk_inline", "pk_named", "lower_nn", "wide_nn", "def_0",
           "def_p0", "def_pp0", "def_fn", "ident_pk", "nv_max", "udt"}

\* ... and its IDENTITY clause: none, or <<[seed, increment]>>
FormIdentity(f) ==
    IF f \in {"ident", "ident_pk"} THEN <<[seed |-> 1, increment |-> 1]>>
    ELSE IF f = "ident_wide" THEN <<[seed |-> 1, increment |-> 2]>>
    ELSE <<>>

\* ... and its inline DEFAULT clause: none, or <<the expression text>>
FormDefault(f) ==
    CASE f = "def_0"   -> <<(<<"0">>)>>
      [] f = "def_p0"  -> <<(<<"(", "0", ")">>)>>
      [] f = "def_pp0" -> <<(<<"(", "(", "0", ")", ")">>)>>
      [] f = "def_fn"  -> <<(<<"(", "getdate", "(", ")", ")">>)>>
      [] OTHER         -> <<>>

\* ... and its type, as written
FormType(f) ==
    CASE f \in {"nv_null"}                       -> <<"[", "nvarchar", "]", "(", "50", ")">>
      [] f \in {"dec"}                           -> <<"DECIMAL", "(", "18", ",", " ", "2", ")">>
      [] f \in {"ident", "lower_nn", "ident_pk"} -> <<"[", "int", "]">>
      [] f \in {"def_fn"}                        -> <<"DATETIME">>
      [] f \in {"dec_br"}                        -> <<"[", "decimal", "]", "(", "18", ",", " ", "2", ")">>
      [] f \in {"nv_max"}                        -> <<"[", "nvarchar", "]", "(", "MAX", ")">>
      [] f \in {"double_prec"}                   -> <<"DOUBLE", " ", "PRECISION">>
      [] f \in {"udt"}                           -> <<"[", "dbo", "]", ".", "[", "Phone", "]">>
      [] OTHER                                   -> <<"INT">>

\* further ways of writing a column: letter case and spacing of the
\* nullability marker, inline DEFAULT clauses, IDENTITY clauses, types
MoreColForms == {"lower_nn", "wide_nn", "def_0", "def_p0", "def_pp0", "def_fn",
                 "ident_pk", "ident_wide", "dec_br", "nv_max", "double_prec", "udt"}

ConsForms == {"pk_a", "pk_ba", "uq_ba", "uq_a"}

\* the column list a table-level constraint form names
ConsCols(f) ==
    CASE f = "pk_a" -> <<"A">> [] f = "pk_ba" -> <<"B", "A">>
      [] f = "uq_ba" -> <<"B", "A">> [] f = "uq_a" -> <<"A">>

ConsIsPrimaryKey(f) == f \in {"pk_a", "pk_ba"}

ConsText(f) ==
    CASE f = "pk_a"  -> <<"CONSTRAINT", " ">> \o Br("PK_T") \o
                        <<" ", "PRIMARY", " ", "KEY", " ", "CLUSTERED", " ", "(">>
                        \o Br("A") \o <<")">>
      [] f = "pk_ba" -> <<"PRIMARY", " ", "KEY", " ", "(">> \o Br("B") \o <<",", " ">>
                        \o Br("A") \o <<")">>
      [] f = "uq_ba" -> <<"CONSTRAINT", " ">> \o Br("UQ_T") \o <<" ", "UNIQUE", " ", "(">>
                        \o Br("B") \o <<",", " ">> \o Br("A") \o <<")">>
      [] f = "uq_a"  -> <<"UNIQUE", " ", "NONCLUSTERED", "(">> \o Br("A") \o <<")">>

Places == {"after", "before", "glued", "glued_nl"}

Stmts == {"ix_own", "ix_own_plain", "ix_other", "ix_other_schema", "alter_a",
          "alter_other_a", "alter_b_fn", "alter_a_empty", "alter_a_lower"}

StmtIsIndex(f) == f \in {"ix_own", "ix_own_plain", "ix_other", "ix_other_schema"}
StmtOnThisTable(f) ==
    f \in {"ix_own", "ix_own_plain", "alter_a", "alter_b_fn", "alter_a_empty", "alter_a_lower"}

\* the ALTER TABLE ... DEFAULT statements: the column each names
StmtIsAlter(f) ==
    f \in {"alter_a", "alter_other_a", "alter_b_fn", "alter_a_empty", "alter_a_lower"}
StmtAlterCol(f) ==
    CASE f \in {"alter_a", "alter_other_a", "alter_a_empty"} -> "A"
      [] f = "alter_b_fn" -> "B"
      [] f = "alter_a_lower" -> "a"
\* ... and the expression each gives, the text inside DEFAULT ( )
StmtAlterExpr(f) ==
    CASE f = "alter_a" -> <<"0">>
      [] f = "alter_other_a" -> <<"1">>
      [] f = "alter_b_fn" -> <<"getdate", "(", ")">>
      [] f = "alter_a_empty" -> <<>>
      [] f = "alter_a_lower" -> <<"2">>

\* ALTER TABLE <name> ADD CONSTRAINT [DF_A] DEFAULT <value> FOR [col]
AlterText(name, value, col) ==
    <<"ALTER", " ", "TABLE", " ">> \o name
        \o <<" ", "ADD", " ", "CONSTRAINT", " ">> \o Br("DF_A")
        \o <<" ", "DEFAULT", " ">> \o value \o <<" ", "FOR", " ">> \o Br(col)

IndexHead(kw) ==
    <<"CREATE", " ", "UNIQUE", " ">> \o kw \o <<"INDEX", " ">> \o Br("IX_1")
        \o <<" ", "ON", " ">>

StmtText(f) ==
    (CASE f = "ix_own" ->
            IndexHead(<<"NONCLUSTERED", " ">>) \o Br("dbo") \o <<".">> \o Br("T")
                \o <<" ", "(">> \o Br("C") \o <<")">>
       [] f = "ix_own_plain" ->
            IndexHead(<<>>) \o Br("dbo") \o <<".">> \o Br("T")
                \o <<" ", "(">> \o Br("C") \o <<")">>
       [] f = "ix_other" ->
            IndexHead(<<"CLUSTERED", " ">>) \o Br("stg") \o <<".">> \o Br("Other")
                \o <<" ", "(">> \o Br("Z") \o <<")">>
       [] f = "ix_other_schema" ->
            IndexHead(<<"CLUSTERED", " ">>) \o Br("stg") \o <<".">> \o Br("T")
                \o <<" ", "(">> \o Br("Z") \o <<",", " ">> \o Br("A") \o <<")">>
       [] f = "alter_a" ->
            <<"ALTER", " ", "TABLE", " ">> \o Br("dbo") \o <<".">> \o Br("T")
                \o <<" ", "ADD", " ", "CONSTRAINT", " ">> \o Br("DF_A")
                \o <<" ", "DEFAULT", " ", "(", "0", ")", " ", "FOR", " ">> \o Br("A")
       [] f = "alter_other_a" ->
            AlterText(Br("stg") \o <<".">> \o Br("Other"), <<"(", "1", ")">>, "A")
       [] f = "alter_b_fn" ->
            AlterText(Br("T"), <<"(", "getdate", "(", ")", ")">>, "B")
       [] f = "alter_a_empty" ->
            AlterText(Br("dbo") \o <<".">> \o Br("T"), <<"(", " ", ")">>, "A")
       [] f = "alter_a_lower" ->
            AlterText(Br("dbo") \o <<".">> \o Br("T"), <<"(", "2", ")">>, "a"))
    \o <<"\n">>

RECURSIVE Concat(_)
Concat(ss) == IF ss = <<>> THEN <<>> ELSE Head(ss) \o Concat(Tail(ss))

RECURSIVE JoinWith(_, _)
JoinWith(items, sep) ==
    IF items = <<>> THEN <<>>
    ELSE IF Len(items) = 1 THEN items[1]
    ELSE items[1] \o sep \o JoinWith(Tail(items), sep)

NoDdl == [kind |-> "none", cols |-> <<>>, cons |-> <<>>, place |-> "after",
          pre |-> <<>>, post |-> <<>>]

TableDdl(cols, cons, place, pre, post) ==
    [kind |-> "table", cols |-> cols, cons |-> cons, place |-> place,
     pre |-> pre, post |-> post]

\* the comma-separated items of the body of a described table
BodyItems(d) ==
    LET C == [i \in 1..Len(d.cols) |-> ColText(d.cols[i], ColName(i))]
        K == [i \in 1..Len(d.cons) |-> ConsText(d.cons[i])]
        glue == IF d.place = "glued" THEN <<" ">> ELSE <<"\n", " ">>
    IN  IF d.cons = <<>> \/ d.place = "after" THEN C \o K
        ELSE IF d.place = "before" THEN K \o C
        ELSE SubSeq(C, 1, Len(C) - 1) \o <<C[Len(C)] \o glue \o K[1]>> \o Tail(K)

CreateTableText(name, bodyText) ==
    <<"CREATE", " ", "TABLE", " ">> \o name \o <<" ", "(">> \o bodyText \o <<")", "\n">>

BodyText(d) == <<"\n", " ">> \o JoinWith(BodyItems(d), <<",", "\n", " ">>) \o <<"\n">>

\* the file of a described table [dbo].[T]
FileText(d) ==
    Concat([i \in 1..Len(d.pre) |-> StmtText(d.pre[i])])
      \o CreateTableText(Br("dbo") \o <<".">> \o Br("T"), BodyText(d))
      \o Concat([i \in 1..Len(d.post) |-> StmtText(d.post[i])])

\* the CREATE TABLE of the end-to-end scenario
DimUserBody ==
    <<"\n", " ">> \o Br("UserKey") \o <<" ", "[", "int", "]", " ", "IDENTITY", "(", "1", ",", "1", ")",
                            " ", "NOT", " ", "NULL", ",", "\n", " ">>
      \o Br("UserId") \o <<" ", "[", "nvarchar", "]", "(", "50", ")", " ", "NOT", " ", "NULL",
                            ",", "\n", " ">>
      \o Br("UserName") \o <<" ", "[", "nvarchar", "]", "(", "100", ")", " ", "NULL", ",", "\n", " ">>
      \o <<"CONSTRAINT", " ">> \o Br("PK_DimUser")
      \o <<" ", "PRIMARY", " ", "KEY", " ", "CLUSTERED", " ", "(">> \o Br("UserKey") \o <<")", ",", "\n", " ">>
      \o <<"CONSTRAINT", " ">> \o Br("UQ_DimUser")
      \o <<" ", "UNIQUE", " ", "(">> \o Br("UserId") \o <<")", "\n">>

DimUserFile == CreateTableText(Br("dbo") \o <<".">> \o Br("DimUser"), DimUserBody)

\* "[A] INT, [B] DECIMAL(18,2), [C] NVARCHAR(MAX)"
SplitExampleBody ==
    Br("A") \o <<" ", "INT", ",", " ">> \o Br("B")
      \o <<" ", "DECIMAL", "(", "18", ",", "2", ")", ",", " ">>
      \o Br("C") \o <<" ", "NVARCHAR", "(", "MAX", ")">>

SplitExampleFile == CreateTableText(Br("T"), SplitExampleBody)

\* "[Id] [int] IDENTITY(1,1) NOT NULL PRIMARY KEY" as the only column
IdExampleBody ==
    Br("Id") \o <<" ", "[", "int", "]", " ", "IDENTITY", "(", "1", ",", "1", ")",
                  " ", "NOT", " ", "NULL", " ", "PRIMARY", " ", "KEY">>

IdExampleFile == CreateTableText(Br("T"), IdExampleBody)

\* items of a body, some of them not column definitions: a column, another,
\* no space after the name, no closing bracket, two words in the brackets,
\* an unclosed parenthesis, nothing at all
ItemForms == {"ok_a", "ok_b", "bad_nospace", "bad_open", "bad_name", "bad_paren", "empty"}

ItemText(f) ==
    CASE f = "ok_a"        -> Br("A") \o <<" ", "INT">>
      [] f = "ok_b"        -> Br("B") \o <<" ", "INT", " ", "NULL">>
      [] f = "bad_nospace" -> Br("C") \o <<"INT">>
      [] f = "bad_open"    -> <<"[", "D">>
      [] f = "bad_name"    -> <<"[", "E", " ", "F", "]", " ", "INT">>
      [] f = "bad_paren"   -> Br("G") \o <<" ", "INT", " ", "(">>
      [] f = "empty"       -> <<>>

\* whether the item, standing alone, is a column definition
ItemIsColumn(f) == f \in {"ok_a", "ok_b", "bad_paren"}

\* the body made of the items, with or without a comma after the last
ItemsBody(forms, trailing) ==
    JoinWith([i \in 1..Len(forms) |-> ItemText(forms[i])], <<",", " ">>)
        \o (IF trailing THEN <<",", " ">> ELSE <<>>)

\* files with no statement that DDL_CREATE_RE matches
NoTableFiles ==
    {<<>>,
     <<"SELECT", " ", "1", "\n">>,
     StmtText("ix_own") \o StmtText("alter_a"),
     <<"CREATE", " ", "TABLE", " ", "dbo", ".", "T", " ", "(">> \o Br("A") \o <<" ", "INT", ")">>,
     <<"CREATE", " ", "TABLE", " ">> \o Br("T") \o <<" ", "(">> \o Br("A") \o <<" ", "INT">>}

\* the lexemes of a free-form body
BodyAlphabet == {"x", ",", "(", ")", " "}

RECURSIVE SeqsUpTo(_, _)
SeqsUpTo(S, n) ==
    IF n = 0 THEN {<<>>}
    ELSE LET R == SeqsUpTo(S, n - 1)
         IN  R \cup {Append(r, x) : r \in {q \in R : Len(q) = n - 1}, x \in S}

NoArgs == [primary_key |-> <<>>, business_key |-> <<>>, surrogate_key |-> <<>>,
           version |-> "2.0"]

\* values of --pk / --primary-key
PkValues ==
    {<<"B">>, <<"B", ",", "A">>, <<"B", ",", " ", "A">>, <<"A", ",", ",", "B">>,
     <<",">>, <<"A", ",", "A">>, <<>>}

\* data type texts given to canonical_base_type and unknown_for_dtype: the
\* bases of UNKNOWN_BY_TYPE and two that are not in it, as written in DDL
TypeBases ==
    {"TINYINT", "SMALLINT", "INT", "BIGINT", "DECIMAL", "NUMERIC", "FLOAT", "REAL",
     "MONEY", "SMALLMONEY", "BIT", "NVARCHAR", "VARCHAR", "TEXT", "NTEXT", "NCHAR",
     "CHAR", "UNIQUEIDENTIFIER", "DATE", "TIME", "DATETIME", "SMALLDATETIME",
     "DATETIME2", "DATETIMEOFFSET", "BINARY", "VARBINARY", "XML",
     "SYSNAME", "GEOGRAPHY"}

\* other spellings of some of them
TypeSpellings == {"int", "nvarchar", "decimal", "bit", "xml", "datetime2", "Decimal",
                  "NVarChar", "sysname"}

\* the precision / scale / MAX suffixes COLUMN_LINE_RE lets a type end with
TypeSuffixes ==
    {<<>>, <<"(", "50", ")">>, <<"(", "18", ",", " ", "2", ")">>, <<"(", "MAX", ")">>,
     <<" ", "(", "18", ",", "2", ")">>, <<"(", "18", ",", "\n", " ", "2", ")">>}

TypeTexts ==
    {w \o x : w \in {<<b>> : b \in TypeBases \cup TypeSpellings}
                      \cup {Br(b) : b \in TypeBases \cup TypeSpellings},
              x \in TypeSuffixes}

---------------------------------------------------------------------------
(* main()                                                                  *)

\* the state at the entry of main: the script, its environment, its
\* command line and its input file; nothing computed, nothing printed
Entry(v, y, a, text, d) ==
    /\ variant = v /\ yaml = y /\ args = a /\ sql = text /\ ddl = d
    /\ pc = "start"
    /\ schema = "" /\ table = "" /\ body = <<>>
    /\ raw_items = <<>> /\ col_items = <<>> /\ constraint_items = <<>>
    /\ columns = <<>> /\ inline_pks = <<>>
    /\ pk_cols = <<>> /\ inferred_bk = <<>> /\ business_key_cols = <<>>
    /\ surrogate_key = <<>>
    /\ default_map = <<>>
    /\ stdout = <<>> /\ stderr = <<>> /\ exit_code = -1
    /\ type_text = <<>> /\ canonical = <<>> /\ unknown_member = <<>>

ConsChoices ==
    {<<>>, <<"pk_a">>, <<"pk_ba">>, <<"uq_ba">>, <<"uq_a">>, <<"pk_a", "uq_ba">>,
     <<"uq_ba", "pk_a">>}

\* tables of up to MaxCols columns with their constraints, alone in the file
InitTables ==
    \E v \in {"dim", "stage"}, cols \in SeqsUpTo(ColForms, MaxCols) \ {<<>>},
       cons \in ConsChoices, place \in Places :
        /\ cons = <<>> => place = "after"
        /\ LET d == TableDdl(cols, cons, place, <<>>, <<>>)
           IN  Entry(v, TRUE, NoArgs, FileText(d), d)

\* a table with other statements before and after it in the file
InitStatements ==
    \E v \in {"dim", "stage"}, cons \in {<<>>, <<"uq_ba">>, <<"pk_a">>},
       pre \in SeqsUpTo(Stmts, 1), post \in SeqsUpTo(Stmts, 1) :
        LET d == TableDdl(<<"int_nn", "nv_null">>, cons, "after", pre, post)
        IN  Entry(v, TRUE, NoArgs, FileText(d), d)

\* command-line overrides
InitCli ==
    \E cols \in {<<"int_nn", "nv_null">>, <<"nv_null", "pk_inline">>},
       cons \in {<<>>, <<"pk_a">>, <<"uq_ba">>, <<"pk_a", "uq_ba">>} :
        LET d == TableDdl(cols, cons, "after", <<>>, <<>>)
        IN  \/ \E pk \in PkValues :
                  Entry("stage", TRUE, [NoArgs EXCEPT !.primary_key = <<pk>>], FileText(d), d)
            \/ \E bk \in {<<"B">>, <<"A", ",", " ", "B">>, <<>>},
                  sk \in {<<>>, <<<<>>>>, <<<<" ", "B">>>>} :
                  Entry("dim", TRUE,
                        [NoArgs EXCEPT !.business_key = <<bk>>, !.surrogate_key = sk],
                        FileText(d), d)

\* tables of one or two columns, one of them written in one of the further
\* ways, with and without an ALTER TABLE default before it: for column A,
\* for A with a blank expression, for a column called a
InitColumns ==
    \E v \in {"dim", "stage"}, f \in MoreColForms,
       pre \in {<<>>, <<"alter_a">>, <<"alter_a_empty">>, <<"alter_a_lower">>} :
        \E cols \in {<<f>>, <<"int_nn", f>>, <<f, "nv_null">>} :
            LET d == TableDdl(cols, <<>>, "after", pre, <<>>)
            IN  Entry(v, TRUE, NoArgs, FileText(d), d)

\* hand-written files, with and without the yaml module
InitExamples ==
    \E v \in {"dim", "stage"}, y \in BOOLEAN, text \in {DimUserFile, SplitExampleFile, IdExampleFile} :
        Entry(v, y, NoArgs, text, [NoDdl EXCEPT !.kind = "example"])

\* files without a CREATE TABLE
InitNoTable ==
    \E v \in {"dim", "stage"}, text \in NoTableFiles :
        Entry(v, TRUE, NoArgs, text, NoDdl)

\* free-form bodies
InitFreeBody ==
    \E v \in {"dim", "stage"}, b \in SeqsUpTo(BodyAlphabet, MaxBodyLen) :
        Entry(v, TRUE, NoArgs,
              CreateTableText(Br("T"), b),
              [NoDdl EXCEPT !.kind = "body"])

\* bodies of up to MaxItems items, well-formed or not
InitItems ==
    \E v \in {"dim", "stage"}, forms \in SeqsUpTo(ItemForms, MaxItems) \ {<<>>},
       trailing \in BOOLEAN :
        Entry(v, TRUE, NoArgs,
              CreateTableText(Br("T"), ItemsBody(forms, trailing)),
              [NoDdl EXCEPT !.kind = "items", !.cols = forms,
                            !.place = IF trailing THEN "trailing" ELSE "after"])

\* a data type text handed to the helpers, with and without the yaml module
InitTypes ==
    \E t \in TypeTexts, y \in BOOLEAN :
        /\ variant = "dim" /\ yaml = y /\ args = NoArgs /\ sql = <<>>
        /\ ddl = [NoDdl EXCEPT !.kind = "type"]
        /\ pc = "type"
        /\ schema = "" /\ table = "" /\ body = <<>>
        /\ raw_items = <<>> /\ col_items = <<>> /\ constraint_items = <<>>
        /\ columns = <<>> /\ inline_pks = <<>>
        /\ pk_cols = <<>> /\ inferred_bk = <<>> /\ business_key_cols = <<>>
        /\ surrogate_key = <<>>
        /\ default_map = <<>>
        /\ stdout = <<>> /\ stderr = <<>> /\ exit_code = -1
        /\ type_text = t /\ canonical = <<>> /\ unknown_member = <<>>

Init ==
    \/ InitTables
    \/ InitStatements
    \/ InitCli
    \/ InitExamples
    \/ InitNoTable
    \/ InitFreeBody
    \/ InitTypes
    \/ InitColumns
    \/ InitItems

\* a main that prints its diagnostic on standard output
NoCreateTableOnStdout ==
    /\ pc = "start"
    /\ ~DDL_CREATE_RE_search(sql).found
    /\ stdout' = Append(stdout, "Could not find a CREATE TABLE statement.")
    /\ exit_code' = 1
    /\ pc' = "done"
    /\ UNCHANGED <<type_text, canonical, unknown_member>>
    /\ UNCHANGED <<variant, yaml, args, sql, ddl, schema, table, body, raw_items,
                   col_items, constraint_items, columns, inline_pks, pk_cols,
                   inferred_bk, business_key_cols, surrogate_key, default_map, stderr>>

\* m = DDL_CREATE_RE.search(sql); if not m: print(..., file=sys.stderr); return 1
NoCreateTable ==
    /\ pc = "start"
    /\ ~DDL_CREATE_RE_search(sql).found
    /\ stderr' = Append(stderr, "Could not find a CREATE TABLE statement.")
    /\ exit_code' = 1
    /\ pc' = "done"
    /\ UNCHANGED <<type_text, canonical, unknown_member>>
    /\ UNCHANGED <<variant, yaml, args, sql, ddl, schema, table, body, raw_items,
                   col_items, constraint_items, columns, inline_pks, pk_cols,
                   inferred_bk, business_key_cols, surrogate_key, default_map, stdout>>

\* schema = m.group("schema") or "dbo" (dim only); table; body
MatchCreateTable ==
    /\ pc = "start"
    /\ LET m == DDL_CREATE_RE_search(sql)
       IN  /\ m.found
           /\ schema' = IF variant = "dim"
                        THEN (IF m.schema = <<>> THEN "dbo" ELSE m.schema[1])
                        ELSE schema
           /\ table' = m.table
           /\ body' = m.body
    /\ pc' = "split"
    /\ UNCHANGED <<type_text, canonical, unknown_member>>
    /\ UNCHANGED <<variant, yaml, args, sql, ddl, raw_items, col_items,
                   constraint_items, columns, inline_pks, pk_cols, inferred_bk,
                   business_key_cols, surrogate_key, default_map, stdout, stderr,
                   exit_code>>

\* col_items, constraint_items = split_columns_block(body)
SplitBody ==
    /\ pc = "split"
    /\ LET r == split_columns_block(variant, body)
       IN  /\ raw_items' = r.raw
           /\ col_items' = r.cols
           /\ constraint_items' = r.cons
    /\ pc' = "parse"
    /\ UNCHANGED <<type_text, canonical, unknown_member>>
    /\ UNCHANGED <<variant, yaml, args, sql, ddl, schema, table, body, columns,
                   inline_pks, pk_cols, inferred_bk, business_key_cols,
                   surrogate_key, default_map, stdout, stderr, exit_code>>

\* columns = parse_columns(col_items)            (dim)
\* columns, inline_pks = parse_columns(col_items) (stage)
ParseColumns ==
    /\ pc = "parse"
    /\ columns' = parse_columns(col_items)
    /\ inline_pks' = IF variant = "stage" THEN parse_inline_pks(col_items) ELSE inline_pks
    /\ pc' = "keys"
    /\ UNCHANGED <<type_text, canonical, unknown_member>>
    /\ UNCHANGED <<variant, yaml, args, sql, ddl, schema, table, body, raw_items,
                   col_items, constraint_items, pk_cols, inferred_bk,
                   business_key_cols, surrogate_key, default_map, stdout, stderr,
                   exit_code>>

\* a surrogate key for which the flag counts only when nothing was inferred
DimSurrogateKeyInferredFirst(flag, pks) ==
    IF Len(pks) = 1 THEN <<pks[1]>>
    ELSE IF Truthy(flag) THEN <<Join(Strip(flag[1]))>> ELSE <<>>

\* surrogate_key of main (dim): the flag, stripped, or the inferred one
DimSurrogateKey(flag, pks) ==
    IF Truthy(flag) THEN <<Join(Strip(flag[1]))>>
    ELSE IF Len(pks) = 1 THEN <<pks[1]>> ELSE <<>>

\* business_key_cols of main (dim): the flag's list or the inferred one
DimBusinessKey(flag, inferred) ==
    IF Truthy(flag) THEN CliList(flag[1]) ELSE inferred

\* dim: pk_cols, inferred_bk, business_key_cols, surrogate_key
\* stage: table_pks, the merge with inline_pks, the --pk fallback
ResolveKeys ==
    /\ pc = "keys"
    /\ IF variant = "dim"
       THEN LET pks == parse_primary_key(constraint_items, col_items)
                bk  == parse_unique_business_key(sql, constraint_items, schema, table)
            IN  /\ pk_cols' = pks
                /\ inferred_bk' = bk
                /\ business_key_cols' = DimBusinessKey(args.business_key, bk)
                /\ surrogate_key' = DimSurrogateKey(args.surrogate_key, pks)
       ELSE /\ pk_cols' = StagePrimaryKey(constraint_items, inline_pks, args.primary_key)
            /\ UNCHANGED <<inferred_bk, business_key_cols, surrogate_key>>
    /\ pc' = "emit"
    /\ UNCHANGED <<type_text, canonical, unknown_member>>
    /\ UNCHANGED <<variant, yaml, args, sql, ddl, schema, table, body, raw_items,
                   col_items, constraint_items, columns, inline_pks, default_map,
                   stdout, stderr, exit_code>>

\* default_map = parse_default_alters(sql); print(emit_...(...)); return 0
EmitDocument ==
    /\ pc = "emit"
    /\ default_map' = parse_default_alters(sql)
    /\ stdout' = Append(stdout,
          [format |-> IF yaml THEN "yaml" ELSE "json",
           doc |-> IF variant = "dim"
                   THEN emit_dim_yaml(yaml, table, columns, surrogate_key,
                                      business_key_cols, parse_default_alters(sql))
                   ELSE emit_stage_yaml(table, columns, pk_cols,
                                        parse_default_alters(sql), args.version)])
    /\ exit_code' = 0
    /\ pc' = "done"
    /\ UNCHANGED <<type_text, canonical, unknown_member>>
    /\ UNCHANGED <<variant, yaml, args, sql, ddl, schema, table, body, raw_items,
                   col_items, constraint_items, columns, inline_pks, pk_cols,
                   inferred_bk, business_key_cols, surrogate_key, stderr>>

\* base = canonical_base_type(dtype)
CanonicalBaseType ==
    /\ pc = "type"
    /\ canonical' = canonical_base_type(type_text)
    /\ pc' = "base"
    /\ UNCHANGED <<type_text, unknown_member>>
    /\ UNCHANGED <<variant, yaml, args, sql, ddl, schema, table, body, raw_items,
                   col_items, constraint_items, columns, inline_pks, pk_cols,
                   inferred_bk, business_key_cols, surrogate_key, default_map,
                   stdout, stderr, exit_code>>

\* unknown_for_dtype(dtype)
UnknownForDtype ==
    /\ pc = "base"
    /\ unknown_member' = unknown_for_dtype(yaml, type_text)
    /\ pc' = "typed"
    /\ UNCHANGED <<type_text, canonical>>
    /\ UNCHANGED <<variant, yaml, args, sql, ddl, schema, table, body, raw_items,
                   col_items, constraint_items, columns, inline_pks, pk_cols,
                   inferred_bk, business_key_cols, surrogate_key, default_map,
                   stdout, stderr, exit_code>>

Next ==
    \/ NoCreateTable
    \/ MatchCreateTable
    \/ SplitBody
    \/ ParseColumns
    \/ ResolveKeys
    \/ EmitDocument
    \/ CanonicalBaseType
    \/ UnknownForDtype

Spec == Init /\ [][Next]_vars

---------------------------------------------------------------------------
(* Properties                                                              *)

\* split_columns_block has returned
HasSplit == pc \in {"parse", "keys", "emit", "done"} /\ exit_code # 1
\* main has returned 0
Emitted == pc = "done" /\ exit_code = 0

\* the document main printed
Doc == stdout[1].doc
Model == Doc.models[1]

\* the table was written from a description and nothing follows it in the file
Described == ddl.kind = "table"
DescribedAlone == ddl.kind = "table" /\ ddl.pre = <<>> /\ ddl.post = <<>>

\* parenthesis depth after the first i lexemes, by counting
DepthAfter(b, i) ==
    Cardinality({k \in 1..i : b[k] = "("}) - Cardinality({k \in 1..i : b[k] = ")"})

Balanced(b) ==
    /\ \A i \in 1..Len(b) : DepthAfter(b, i) >= 0
    /\ DepthAfter(b, Len(b)) = 0

\* the commas outside every parenthesised group
TopLevelCommas(b) == {i \in 1..Len(b) : b[i] = "," /\ DepthAfter(b, i) = 0}

\* the text after the last top-level comma is not blank
HasLastPiece(b) ==
    \E k \in (Max(TopLevelCommas(b) \cup {0}) + 1)..Len(b) : ~IsSpace(b[k])

\* C1: split_columns_block breaks a body with balanced parentheses at the
\* commas of depth zero and nowhere else: there is one raw item per
\* top-level comma, plus one when the text after the last of them is not
\* blank; every raw item has balanced parentheses of its own (no boundary
\* inside a group); a described table gives one raw item per written item;
\* and "[A] INT, [B] DECIMAL(18,2), [C] NVARCHAR(MAX)" gives three items.
C1_SplitAtDepthZero ==
    HasSplit =>
        /\ Balanced(body) =>
              /\ Len(raw_items) = Cardinality(TopLevelCommas(body))
                                    + (IF HasLastPiece(body) THEN 1 ELSE 0)
              /\ \A k \in 1..Len(raw_items) : Balanced(raw_items[k])
        /\ DescribedAlone => Len(raw_items) = Len(BodyItems(ddl))
        /\ body = SplitExampleBody =>
              raw_items = << Br("A") \o <<" ", "INT">>,
                             Br("B") \o <<" ", "DECIMAL", "(", "18", ",", "2", ")">>,
                             Br("C") \o <<" ", "NVARCHAR", "(", "MAX", ")">> >>

\* C1 witness: the example body has been split, in both scripts' way
C1_Witness ==
    /\ HasSplit /\ body = SplitExampleBody /\ Len(raw_items) = 3
    /\ Cardinality(TopLevelCommas(body)) = 2
    /\ \E i \in 1..Len(body) : body[i] = "," /\ DepthAfter(body, i) > 0

\* the written columns of a described table, by name
DeclaredNames == [i \in 1..Len(ddl.cols) |-> ColName(i)]

\* C2 (as claimed): a described table of N columns, whatever the place of
\* its constraints, gives exactly N column records, in both scripts.
C2_ColumnCount ==
    (DescribedAlone /\ pc \in {"keys", "emit", "done"}) =>
        Len(columns) = Len(ddl.cols)

\* a is b with some elements left out (order kept)
RECURSIVE IsSubsequence(_, _)
IsSubsequence(a, b) ==
    IF a = <<>> THEN TRUE
    ELSE IF b = <<>> THEN FALSE
    ELSE IF Head(a) = Head(b) THEN IsSubsequence(Tail(a), Tail(b))
    ELSE IsSubsequence(a, Tail(b))

\* the name a column item opens with
ItemName(it) == At(it, SkipSpace(it, 1) + 1)

EmittedNames == [i \in 1..Len(Model.columns) |-> Model.columns[i].name]

\* C3: the emitted columns are, in order, the column items that match the
\* column grammar (their names, one for one); for a described table the
\* emitted names follow the order of declaration, and for the DimUser file
\* they are UserKey, UserId, UserName.
C3_ColumnOrder ==
    Emitted =>
        /\ EmittedNames =
              LET kept == SelectSeq(col_items, LAMBDA it : COLUMN_LINE_RE_match(it).ok)
              IN  [i \in 1..Len(kept) |-> ItemName(kept[i])]
        /\ Described => IsSubsequence(EmittedNames, DeclaredNames)
        /\ (DescribedAlone /\ ddl.place \in {"after", "before"}) =>
              EmittedNames = DeclaredNames
        /\ sql = DimUserFile => EmittedNames = <<"UserKey", "UserId", "UserName">>

\* C3 witness: a described table of two columns or more was emitted whole
C3_Witness ==
    /\ Emitted /\ DescribedAlone /\ Len(ddl.cols) >= 2 /\ ddl.cons # <<>>
    /\ ddl.place = "before" /\ EmittedNames = DeclaredNames

C5_MissingTable ==
    /\ pc = "done" =>
          IF ddl.kind = "none"
          THEN /\ exit_code = 1 /\ Len(stderr) = 1 /\ stdout = <<>>
               /\ raw_items = <<>> /\ col_items = <<>> /\ constraint_items = <<>>
               /\ columns = <<>> /\ pk_cols = <<>> /\ default_map = <<>>
               /\ table = "" /\ body = <<>>
          ELSE exit_code = 0 /\ Len(stdout) = 1 /\ stderr = <<>>
    /\ pc # "done" => stdout = <<>> /\ stderr = <<>> /\ exit_code = -1

\* C5 witness: main has returned 1 on a file with no CREATE TABLE
C5_Witness ==
    pc = "done" /\ ddl.kind = "none" /\ sql # <<>> /\ exit_code = 1 /\ stdout = <<>>

\* the table-level PRIMARY KEY / UNIQUE constraints written for the table
WrittenPrimaryKeys == SelectSeq(ddl.cons, ConsIsPrimaryKey)
WrittenUniques == SelectSeq(ddl.cons, LAMBDA f : ~ConsIsPrimaryKey(f))

\* the columns written with a PRIMARY KEY marker of their own
WrittenInlineKeys ==
    {ColName(i) : i \in {k \in 1..Len(ddl.cols) : ddl.cols[k] \in {"pk_inline", "pk_named", "ident_pk"}}}

Range(s) == {s[i] : i \in 1..Len(s)}

\* C6 (as claimed): with the table-level PRIMARY KEY ([A]) as only key
\* declaration the primary key is [A]; with no table-level PRIMARY KEY every
\* column written with a PRIMARY KEY marker, named or unnamed, is in the
\* primary key; in both scripts.
C6_BothKeyPaths ==
    (DescribedAlone /\ pc \in {"emit", "done"} /\ args = NoArgs
       /\ ddl.place \in {"after", "before"}) =>
        /\ (WrittenPrimaryKeys = <<"pk_a">> /\ WrittenInlineKeys = {}) => pk_cols = <<"A">>
        /\ WrittenPrimaryKeys = <<>> => WrittenInlineKeys \subseteq Range(pk_cols)

\* the position of the first x in s
FirstIndex(s, x) == Min({i \in 1..Len(s) : s[i] = x})

\* the table-level key columns the stage script found, then the inline ones
StageKeySources == parse_primary_key_from_constraints(constraint_items) \o inline_pks

PkFlag == args.primary_key[1]
PkFlagUsed == variant = "stage" /\ Truthy(args.primary_key) /\ StageKeySources = <<>>

\* str.split(",") entries of the flag, as given
RawEntries(value) ==
    LET parts == SplitComma(value, <<>>)
    IN  [i \in 1..Len(parts) |-> Join(parts[i])]

WrittenStmts == Range(ddl.pre) \cup Range(ddl.post)

\* every UNIQUE constraint of the description stands as an item of its own
UniquesAreItems == ddl.place \in {"after", "before"}

\* C9: in the dim script a table-level UNIQUE constraint decides the
\* business key alone: the inferred key is the column list of the first
\* UNIQUE constraint written, whatever CREATE UNIQUE INDEX statements the
\* file holds; without such a constraint the key is the column list of an
\* index on this table, and it is empty when the file holds no such index.
C9_BusinessKeyFirstWins ==
    (variant = "dim" /\ Described /\ UniquesAreItems /\ pc \in {"emit", "done"}) =>
        /\ WrittenUniques # <<>> => inferred_bk = ConsCols(WrittenUniques[1])
        /\ (WrittenUniques = <<>> /\ "ix_own" \in WrittenStmts) => inferred_bk = <<"C">>
        /\ (WrittenUniques = <<>> /\ WrittenStmts \cap {"ix_own", "ix_own_plain"} = {}) =>
              inferred_bk = <<>>
        /\ WrittenUniques = <<>> => inferred_bk \in {<<>>, <<"C">>}

\* C9 witness: UNIQUE ([B], [A]) in the table and an index on ([C]) of the
\* same table in the file: the key is [B, A]
C9_Witness ==
    /\ variant = "dim" /\ pc = "done" /\ Described
    /\ WrittenUniques = <<"uq_ba">> /\ "ix_own" \in WrittenStmts
    /\ inferred_bk = <<"B", "A">>

\* C10: in the dim script an index on another schema.table never gives the
\* business key: no column named only by such an index is in the inferred
\* key; with only such indexes in the file the key is that of the UNIQUE
\* constraint, or empty without one; before and after the CREATE TABLE.
C10_ForeignIndexIgnored ==
    (variant = "dim" /\ Described /\ pc \in {"emit", "done"}) =>
        /\ "Z" \notin Range(inferred_bk)
        /\ (WrittenStmts \cap {"ix_own", "ix_own_plain"} = {} /\ UniquesAreItems) =>
              inferred_bk = IF WrittenUniques # <<>>
                            THEN ConsCols(WrittenUniques[1]) ELSE <<>>

\* C10 witness: only an index on [stg].[T] after the table, and an empty
\* key; (the same with UNIQUE ([B], [A]) is reached as well)
C10_Witness ==
    /\ variant = "dim" /\ pc = "done" /\ Described
    /\ ddl.cons = <<>> /\ ddl.pre = <<>> /\ ddl.post = <<"ix_other_schema">>
    /\ inferred_bk = <<>>

\* the index statements of the file that are on [dbo].[T], the parsed table
OwnIndexes == WrittenStmts \cap {"ix_own", "ix_own_plain"}

\* C11 (as claimed): in the dim script, a table without a table-level UNIQUE
\* constraint and a file holding CREATE UNIQUE [CLUSTERED|NONCLUSTERED]
\* INDEX ... ON [dbo].[T] ([C]), with or without the keyword, give the
\* business key [C].
C11_IndexGivesKey ==
    (variant = "dim" /\ Described /\ pc \in {"emit", "done"}
       /\ WrittenUniques = <<>> /\ OwnIndexes # {}) =>
        inferred_bk = <<"C">>

\* the names of the primary key a description declares: those of its first
\* table-level PRIMARY KEY constraint and those of its inline markers
DeclaredKeyNames ==
    (IF WrittenPrimaryKeys = <<>> THEN {} ELSE Range(ConsCols(WrittenPrimaryKeys[1])))
        \cup WrittenInlineKeys

\* C12 (as claimed): in the dim script without --surrogate-key, the
\* surrogate key is the one column of the merged primary key (table-level
\* list and inline markers) when that key has exactly one column, and is
\* blank otherwise.
C12_SurrogateFromMergedKey ==
    (variant = "dim" /\ DescribedAlone /\ UniquesAreItems /\ args = NoArgs
       /\ pc \in {"emit", "done"}) =>
        surrogate_key = IF Cardinality(DeclaredKeyNames) = 1
                        THEN <<CHOOSE n \in DeclaredKeyNames : TRUE>>
                        ELSE <<>>

\* the lexemes of a flag's value that are not white space
NonBlank(value) == SelectSeq(value, LAMBDA t : ~IsSpace(t))

\* C13 (as claimed): in the dim script, whenever --surrogate-key is given
\* its value is the emitted meta.surrogate_key, and whenever --business-key
\* is given its comma-separated entries are the emitted meta.business_key.
C13_FlagsAsGiven ==
    (variant = "dim" /\ Emitted) =>
        /\ args.surrogate_key # <<>> =>
              Model.meta.surrogate_key = Join(args.surrogate_key[1])
        /\ args.business_key # <<>> =>
              Model.meta.business_key = RawEntries(args.business_key[1])

\* C13 (amended): in the dim script a flag given with a non-empty value
\* overrides whatever the DDL yields: meta.surrogate_key is the value of
\* --surrogate-key without its surrounding white space, meta.business_key
\* is the entries of --business-key, each without surrounding white space,
\* blank entries dropped; a flag that is absent or given with the empty
\* value leaves the inferred key in place.
C13_FlagsOverride ==
    (variant = "dim" /\ Emitted) =>
        /\ Model.meta.surrogate_key =
              IF Truthy(args.surrogate_key) THEN Join(NonBlank(args.surrogate_key[1]))
              ELSE IF Len(pk_cols) = 1 THEN pk_cols[1] ELSE ""
        /\ Model.meta.business_key =
              IF Truthy(args.business_key) THEN SelectSeq(args.business_key[1], IsWord)
              ELSE inferred_bk

\* C13 witness: PRIMARY KEY ([A]) and UNIQUE ([B], [A]) in the table,
\* --surrogate-key " B" and --business-key "A, B" on the command line
C13_Witness ==
    /\ variant = "dim" /\ Emitted
    /\ pk_cols = <<"A">> /\ inferred_bk = <<"B", "A">>
    /\ args.surrogate_key = <<<<" ", "B">>>>
    /\ args.business_key = <<<<"A", ",", " ", "B">>>>
    /\ Model.meta.surrogate_key = "B" /\ Model.meta.business_key = <<"A", "B">>

\* the reference table of unknown members: the numeric bases
ReferenceNumber ==
    [b \in {"TINYINT", "BIT"} |-> 0]
      @@ [b \in {"SMALLINT", "INT", "BIGINT", "DECIMAL", "NUMERIC", "FLOAT", "REAL",
                 "MONEY", "SMALLMONEY"} |-> -1]

\* the reference table of unknown members: the other bases
ReferenceText ==
    [b \in {"NVARCHAR", "VARCHAR", "TEXT", "NTEXT"} |-> "Unknown"]
      @@ [b \in {"NCHAR", "CHAR"} |-> "U"]
      @@ [b \in {"UNIQUEIDENTIFIER"} |-> "00000000-0000-0000-0000-000000000000"]
      @@ [b \in {"DATE"} |-> "1900-01-01"]
      @@ [b \in {"TIME"} |-> "00:00:00"]
      @@ [b \in {"DATETIME", "SMALLDATETIME", "DATETIME2"} |-> "1900-01-01T00:00:00"]
      @@ [b \in {"DATETIMEOFFSET"} |-> "1900-01-01T00:00:00Z"]
      @@ [b \in {"BINARY", "VARBINARY"} |-> "0x"]
      @@ [b \in {"XML"} |-> "<unknown/>"]

\* the value the reference table gives the base b, strings tagged as `tag`
Reference(b, tag) ==
    IF b \in DOMAIN ReferenceNumber
    THEN [type |-> "int", int |-> ReferenceNumber[b], str |-> ""]
    ELSE [type |-> tag, int |-> 0,
          str |-> IF b \in DOMAIN ReferenceText THEN ReferenceText[b] ELSE "Unknown"]

\* unknown_for_dtype has returned for the data type text
Typed == pc = "typed"

\* C14 (as claimed): unknown_for_dtype gives the value of the reference
\* table for the canonical base, a bare number for the eleven numeric bases
\* and otherwise a string tagged for single-quoted emission.
C14_AlwaysTagged ==
    Typed => unknown_member = Reference(Join(canonical), "SingleQuoted")

\* C14 (amended): unknown_for_dtype gives the value of the reference table
\* for the canonical base: a bare number exactly for the eleven numeric
\* bases, otherwise a string, which is tagged for single-quoted emission
\* when the yaml module is importable and is a plain string when it is not.
C14_ReferenceTable ==
    /\ Cardinality(DOMAIN ReferenceNumber) = 11
    /\ Typed => unknown_member =
                    Reference(Join(canonical), IF yaml THEN "SingleQuoted" ELSE "str")

\* C14 witness: with yaml, BIT has given the number 0
C14_Witness ==
    /\ Typed /\ yaml /\ type_text = <<"BIT">>
    /\ unknown_member = [type |-> "int", int |-> 0, str |-> ""]

\* the base a data type text names: its word, in upper case
WrittenBase == Upper(SelectSeq(type_text, IsWord)[1])

\* C15 (as claimed): brackets, letter case and a precision / scale / MAX
\* suffix do not change unknown_for_dtype, which is that of the bare base;
\* canonical_base_type gives the bare upper-case base (no bracket, no
\* lowercase letter, no parenthesised suffix) and is idempotent.
C15_DecorationIgnored ==
    Typed =>
        /\ canonical = <<WrittenBase>>
        /\ canonical_base_type(canonical) = canonical
        /\ unknown_member = unknown_for_dtype(yaml, <<WrittenBase>>)

\* parse_columns has returned for a table written from a description
ParsedDescribed == Described /\ pc \in {"keys", "emit", "done"}

\* the way the column called name was written in the described table
FormOf(name) == ddl.cols[CHOOSE i \in 1..Len(ddl.cols) : ColName(i) = name]

\* C16: in both scripts every parsed column is nullable = false exactly
\* when its definition was written with a NOT NULL marker (in any letter
\* case and spacing) and nullable = true when written with NULL or with no
\* marker; the emitted meta.nullable of the column is that value.
C16_Nullable ==
    /\ ParsedDescribed =>
          \A k \in 1..Len(columns) :
              columns[k].nullable = ~FormNotNull(FormOf(columns[k].name))
    /\ (Described /\ Emitted) =>
          /\ Len(Model.columns) = Len(columns)
          /\ \A k \in 1..Len(columns) :
                /\ Model.columns[k].name = columns[k].name
                /\ Model.columns[k].meta.nullable = ~FormNotNull(FormOf(columns[k].name))

\* C16 witness: "[A] [int] not null" and "[B] [nvarchar](50) NULL" emitted
\* with nullable false and true
C16_Witness ==
    /\ Described /\ Emitted /\ ddl.cols = <<"lower_nn", "nv_null">>
    /\ Len(Model.columns) = 2
    /\ Model.columns[1].meta.nullable = FALSE
    /\ Model.columns[2].meta.nullable = TRUE

\* C17: in both scripts a column written with IDENTITY(s, i) is parsed
\* with identity {seed: s, increment: i}, two integers, and emitted with
\* meta.identity of the same two values; a column written without the
\* clause has no identity and no identity key in its emitted meta; and
\* "[Id] [int] IDENTITY(1,1) NOT NULL PRIMARY KEY" is parsed as name Id,
\* data_type INT, nullable false, identity {1, 1}, and Id is recorded as
\* an inline primary key.
C17_IdentityRoundTrip ==
    /\ ParsedDescribed =>
          \A k \in 1..Len(columns) :
              /\ columns[k].identity = FormIdentity(FormOf(columns[k].name))
              /\ columns[k].identity # <<>> =>
                    /\ columns[k].identity[1].seed \in Nat
                    /\ columns[k].identity[1].increment \in Nat
    /\ (Described /\ Emitted) =>
          \A k \in 1..Len(columns) :
              LET id   == FormIdentity(FormOf(columns[k].name))
                  meta == Model.columns[k].meta
              IN  IF id = <<>> THEN "identity" \notin DOMAIN meta
                  ELSE "identity" \in DOMAIN meta /\ meta.identity = id[1]
    /\ (sql = IdExampleFile /\ pc \in {"keys", "emit", "done"}) =>
          /\ columns = <<[name |-> "Id", data_type |-> <<"INT">>, nullable |-> FALSE,
                          identity |-> <<[seed |-> 1, increment |-> 1]>>,
                          inline_default |-> <<>>]>>
          /\ variant = "stage" => inline_pks = <<"Id">>
          /\ pc \in {"emit", "done"} => pk_cols = <<"Id">>

\* C17 witness: "[A] INT IDENTITY (1, 2) NULL" emitted with identity {1, 2}
\* next to a column without identity
C17_Witness ==
    /\ Described /\ Emitted /\ ddl.cols = <<"ident_wide", "nv_null">>
    /\ Model.columns[1].meta.identity = [seed |-> 1, increment |-> 2]
    /\ "identity" \notin DOMAIN Model.columns[2].meta

\* C18: a column written with an inline DEFAULT clause (DEFAULT 0,
\* DEFAULT (0), DEFAULT ((0)), DEFAULT (getdate())) is parsed with
\* inline_default equal to the expression text that follows the DEFAULT
\* keyword, and when no ALTER TABLE default exists for the column its
\* emitted meta.default_expression is that expression text.
C18_InlineDefault ==
    /\ ParsedDescribed =>
          \A k \in 1..Len(columns) :
              LET d == FormDefault(FormOf(columns[k].name))
              IN  d # <<>> => columns[k].inline_default = d
    /\ (Described /\ Emitted) =>
          \A k \in 1..Len(columns) :
              LET d    == FormDefault(FormOf(columns[k].name))
                  meta == Model.columns[k].meta
              IN  (d # <<>> /\ columns[k].name \notin DOMAIN default_map) =>
                      /\ "default_expression" \in DOMAIN meta
                      /\ meta.default_expression = d[1]

\* C19: the emitted data_type of every column is the column's type as
\* written in the DDL with the bracket delimiters removed and the letters
\* upper-cased, the precision/scale/MAX suffix retained; no emitted
\* data_type contains '[' or ']' or a lower-case letter.
C19_DataTypeAsWritten ==
    (Described /\ Emitted) =>
        \A k \in 1..Len(columns) :
            LET dt == Model.columns[k].data_type
            IN  /\ dt = UpperText(RemoveBrackets(FormType(FormOf(columns[k].name))))
                /\ \A j \in 1..Len(dt) : dt[j] \notin {"[", "]"} /\ Upper(dt[j]) = dt[j]

\* C20: every document the dimension script emits has meta.business_key,
\* a list (the empty list when no business key was found), and
\* meta.surrogate_key, a string (the empty string when none was inferred
\* or supplied); neither key is omitted or null.
C20_DimMetaAlwaysPresent ==
    (variant = "dim" /\ Emitted) =>
        /\ {"business_key", "surrogate_key"} \subseteq DOMAIN Model.meta
        /\ DOMAIN Model.meta.business_key = 1..Len(Model.meta.business_key)
        /\ Model.meta.business_key = business_key_cols
        /\ business_key_cols = <<>> => Model.meta.business_key = <<>>
        /\ Model.meta.surrogate_key \in STRING
        /\ surrogate_key = <<>> => Model.meta.surrogate_key = ""
        /\ surrogate_key # <<>> => Model.meta.surrogate_key = surrogate_key[1]

\* C20 witness: a dimension document written with neither key known
C20_Witness ==
    /\ variant = "dim" /\ Emitted
    /\ business_key_cols = <<>> /\ surrogate_key = <<>>
    /\ Model.meta = [business_key |-> <<>>, surrogate_key |-> ""]

\* C21: in every document the staging script emits, the model's meta has
\* the key primary_key exactly when the resolved primary-key list is not
\* empty (and then holds that list); with no primary-key column meta is
\* the empty mapping.
C21_StageMetaPrimaryKey ==
    (variant = "stage" /\ Emitted) =>
        /\ ("primary_key" \in DOMAIN Model.meta) <=> (pk_cols # <<>>)
        /\ pk_cols = <<>> => Model.meta = <<>>
        /\ pk_cols # <<>> => Model.meta = [primary_key |-> pk_cols]

\* C21 witness: a staging document of a table without any primary key
C21_Witness ==
    /\ variant = "stage" /\ Emitted /\ Described
    /\ ddl.cols = <<"int_nn", "nv_null">> /\ ddl.cons = <<>>
    /\ pk_cols = <<>>
    /\ Model.meta = <<>>

\* the columns for which the file holds an ALTER TABLE default
WrittenAlterCols == {StmtAlterCol(f) : f \in {g \in WrittenStmts : StmtIsAlter(g)}}

\* C22: every emitted column's meta has nullable, a boolean; it has
\* identity only when the column has an IDENTITY clause and
\* default_expression, never empty, only when a default (ALTER TABLE or
\* inline) exists for the column; the dimension script always adds
\* unknown_member and the staging script never does; there is no other key.
C22_ColumnMetaKeys ==
    Emitted =>
        /\ Len(Model.columns) = Len(columns)
        /\ \A k \in 1..Len(columns) :
              LET meta == Model.columns[k].meta
                  c    == columns[k]
              IN  /\ "nullable" \in DOMAIN meta
                  /\ meta.nullable \in BOOLEAN
                  /\ DOMAIN meta \subseteq
                        {"nullable", "identity", "default_expression", "unknown_member"}
                  /\ ("unknown_member" \in DOMAIN meta) <=> (variant = "dim")
                  /\ "identity" \in DOMAIN meta =>
                        /\ c.identity # <<>>
                        /\ Described => FormIdentity(FormOf(c.name)) # <<>>
                  /\ "default_expression" \in DOMAIN meta =>
                        /\ meta.default_expression # <<>>
                        /\ \/ c.name \in DOMAIN default_map /\ default_map[c.name] # <<>>
                           \/ c.inline_default # <<>> /\ c.inline_default[1] # <<>>
                        /\ Described =>
                              \/ c.name \in WrittenAlterCols
                              \/ FormDefault(FormOf(c.name)) # <<>>

\* C22 witness: a staging document whose first column has an IDENTITY clause
\* and an ALTER TABLE default and whose second column has neither
C22_Witness ==
    /\ variant = "stage" /\ Emitted /\ Described
    /\ ddl.cols = <<"ident_pk", "nv_null">> /\ ddl.pre = <<"alter_a">>
    /\ Model.columns[1].meta = [nullable |-> FALSE,
                                identity |-> [seed |-> 1, increment |-> 1],
                                default_expression |-> <<"0">>]
    /\ Model.columns[2].meta = [nullable |-> TRUE]

\* the file is laid out as the interface describes: the CREATE TABLE, its
\* constraints as items of their own, then statements for the same table
InterfaceLayout ==
    /\ Described /\ ddl.pre = <<>> /\ ddl.post # <<>>
    /\ ddl.place \in {"after", "before"}
    /\ \A i \in 1..Len(ddl.post) : StmtOnThisTable(ddl.post[i])

\* C23 (as claimed): a file holding one CREATE TABLE followed by ALTER TABLE
\* ... DEFAULT (expr) FOR [col] and/or CREATE UNIQUE INDEX statements for
\* the same table is converted with every column of the table in the
\* output, the last one included, and with meta.default_expression = expr
\* on each column an ALTER statement names.
C23_FollowingStatements ==
    (InterfaceLayout /\ Emitted) =>
        /\ EmittedNames = DeclaredNames
        /\ \A i \in 1..Len(ddl.post) :
              StmtIsAlter(ddl.post[i]) =>
                  \A k \in 1..Len(Model.columns) :
                      Model.columns[k].name = StmtAlterCol(ddl.post[i]) =>
                          /\ "default_expression" \in DOMAIN Model.columns[k].meta
                          /\ Model.columns[k].meta.default_expression
                                = StmtAlterExpr(ddl.post[i])

\* C24 (as claimed): the body handed to split_columns_block is the text
\* between the parenthesis that opens the CREATE TABLE and the one that
\* closes it, so no split item holds text of a statement that follows the
\* CREATE TABLE in the file.
C24_BodyEndsAtClosingParen ==
    LET \* words that only the statements around the table use
        StatementWords == {"ALTER", "INDEX", "ON", "ADD", "FOR", "IX_1", "DF_A"}
    IN
    (Described /\ HasSplit) =>
        /\ body = BodyText(ddl)
        /\ \A i \in 1..Len(raw_items) : Range(raw_items[i]) \cap StatementWords = {}

\* C25 (as claimed): after split_columns_block, in both scripts, every
\* element of column_items opens with a bracketed identifier and none holds
\* an embedded "CONSTRAINT ... PRIMARY KEY ..." or "CONSTRAINT ... UNIQUE ..."
\* block; an item that starts like a column and has such a block glued to
\* its tail is split into the column (in column_items) and the block (in
\* constraint_items).
C25_EmbeddedConstraintSplit ==
    LET \* the item opens with a bracketed identifier
        StartsWithBracketedName(it) ==
            At(it, 1) = "[" /\ IsWord(At(it, 2)) /\ At(it, 3) = "]"
        \* the item holds the word CONSTRAINT and, after it, PRIMARY KEY or UNIQUE
        ContainsEmbedded(it) ==
            \E i \in 1..Len(it), j \in 1..Len(it) :
                /\ i < j /\ Kw(it[i], "CONSTRAINT")
                /\ Kw(it[j], "UNIQUE") \/ PrimaryKeyWordsAt(it, j)
    IN
    HasSplit =>
        /\ \A k \in 1..Len(col_items) :
              StartsWithBracketedName(col_items[k]) /\ ~ContainsEmbedded(col_items[k])
        /\ (DescribedAlone /\ ddl.place \in {"glued", "glued_nl"}
              /\ Kw(ConsText(ddl.cons[1])[1], "CONSTRAINT")
              /\ ddl.cols[Len(ddl.cols)] # "pk_named") =>
              /\ ColText(ddl.cols[Len(ddl.cols)], ColName(Len(ddl.cols))) \in Range(col_items)
              /\ ConsText(ddl.cons[1]) \in Range(constraint_items)

\* the statements written around the table, in file order
WrittenSeq == ddl.pre \o ddl.post

\* the last ALTER TABLE default statement of the file that names col
LastAlterFor(col) ==
    LET S == {i \in 1..Len(WrittenSeq) :
                 StmtIsAlter(WrittenSeq[i]) /\ StmtAlterCol(WrittenSeq[i]) = col}
    IN  WrittenSeq[Max(S)]

\* C26: defaults are not scoped by table: every ALTER TABLE ... DEFAULT
\* (expr) FOR [col] statement of the file, whatever table it names, records
\* its expression for col (the last statement for a column is the one
\* kept), and a default declared for a same-named column of another table
\* is emitted as meta.default_expression of the parsed table's column.
C26_DefaultsNotScoped ==
    (Described /\ Emitted) =>
        /\ DOMAIN default_map = WrittenAlterCols
        /\ \A c \in WrittenAlterCols : default_map[c] = StmtAlterExpr(LastAlterFor(c))
        /\ \A k \in 1..Len(Model.columns) :
              LET n == Model.columns[k].name
              IN  (n \in WrittenAlterCols /\ LastAlterFor(n) = "alter_other_a") =>
                      /\ "default_expression" \in DOMAIN Model.columns[k].meta
                      /\ Model.columns[k].meta.default_expression = <<"1">>

\* C26 witness: the only ALTER statement of the file names another table
\* and its default is emitted for column A of the parsed table
C26_Witness ==
    /\ Described /\ Emitted
    /\ ddl.pre = <<"alter_other_a">> /\ ddl.post = <<>>
    /\ table = "T"
    /\ default_map = [c \in {"A"} |-> <<"1">>]
    /\ Model.columns[1].name = "A"
    /\ Model.columns[1].meta.default_expression = <<"1">>

\* the body was written as a list of items, none of which opens a
\* parenthesis it does not close
ItemsPlain == ddl.kind = "items" /\ "bad_paren" \notin Range(ddl.cols)

\* the columns of a list of items, each parsed alone, in the items' order
RECURSIVE EachAlone(_)
EachAlone(items) ==
    IF items = <<>> THEN <<>>
    ELSE parse_columns(<<Head(items)>>) \o EachAlone(Tail(items))

\* C27: an item that does not match the column grammar is dropped by
\* parse_columns without an error and without a diagnostic, and the other
\* items are unaffected: the parsed columns are the grammar-matching items
\* of column_items, in their order, each parsed as it would be alone; and
\* split_columns_block gives its two lists for every body, unbalanced
\* parentheses included, so that main goes on to print its document.
C27_UnparsedItemsDropped ==
    /\ HasSplit => stderr = <<>>
    /\ (HasSplit /\ pc # "done") => stdout = <<>>
    /\ (pc \in {"keys", "emit", "done"} /\ exit_code # 1) =>
          /\ columns = EachAlone(col_items)
          /\ Len(columns) =
                Cardinality({k \in 1..Len(col_items) : COLUMN_LINE_RE_match(col_items[k]).ok})
          /\ ItemsPlain =>
                [k \in 1..Len(columns) |-> columns[k].name]
                    = LET kept == SelectSeq(ddl.cols, ItemIsColumn)
                      IN  [k \in 1..Len(kept) |-> ItemName(ItemText(kept[k]))]
    /\ (pc = "done" /\ exit_code # 1) => exit_code = 0 /\ Len(stdout) = 1

\* C27 witness: a malformed item between two columns was dropped, the two
\* columns were parsed and the document was printed
C27_Witness ==
    /\ Emitted /\ ddl.kind = "items" /\ ddl.cols = <<"ok_a", "bad_nospace", "ok_b">>
    /\ Len(col_items) = 3
    /\ EmittedNames = <<"A", "B">>
    /\ stderr = <<>>

\* C28: when a column has an ALTER TABLE default and an inline DEFAULT, the
\* emitted default_expression is the ALTER TABLE expression; the inline one
\* is used only when the ALTER map has no non-empty entry for that exact
\* column name; and of several ALTER TABLE default statements naming a
\* column the last one in file order gives the expression.
C28_AlterBeforeInline ==
    Emitted =>
        \A k \in 1..Len(columns) :
            LET c      == columns[k]
                meta   == Model.columns[k].meta
                hasMap == c.name \in DOMAIN default_map /\ default_map[c.name] # <<>>
            IN  /\ hasMap =>
                      /\ "default_expression" \in DOMAIN meta
                      /\ meta.default_expression = default_map[c.name]
                /\ (~hasMap /\ c.inline_default # <<>> /\ c.inline_default[1] # <<>>) =>
                      /\ "default_expression" \in DOMAIN meta
                      /\ meta.default_expression = c.inline_default[1]
                /\ (Described /\ c.name \in WrittenAlterCols
                      /\ StmtAlterExpr(LastAlterFor(c.name)) # <<>>) =>
                      /\ "default_expression" \in DOMAIN meta
                      /\ meta.default_expression = StmtAlterExpr(LastAlterFor(c.name))

\* C28 witness: column A is written with DEFAULT (0), whose inline text is
\* not empty, and the file holds an ALTER TABLE default for A, which is the
\* one emitted
C28_Witness ==
    /\ Described /\ Emitted
    /\ ddl.cols = <<"def_p0">> /\ ddl.pre = <<"alter_a">>
    /\ columns[1].inline_default # <<>> /\ columns[1].inline_default[1] # <<>>
    /\ columns[1].inline_default[1] # <<"0">>
    /\ Model.columns[1].meta.default_expression = <<"0">>

\* C29 (as claimed): in every document the staging script emits,
\* meta.primary_key, when present, holds no column name twice and no empty
\* name, whatever the table-level PRIMARY KEY constraint, the inline
\* PRIMARY KEY markers and the value of --pk.
C29_PrimaryKeyNoRepeats ==
    (variant = "stage" /\ Emitted /\ "primary_key" \in DOMAIN Model.meta) =>
        LET pk == Model.meta.primary_key
        IN  /\ \A i \in 1..Len(pk) : pk[i] # ""
            /\ \A i \in 1..Len(pk), j \in 1..Len(pk) : pk[i] = pk[j] => i = j

\* C30: split_columns_block loses and duplicates nothing: every element of
\* column_items is non-empty and starts with '['; every raw item is in
\* exactly one of the two lists, or in both as head and tail when an
\* embedded constraint was split off; a comma at the end of the body gives
\* no extra item; two consecutive top-level commas give an empty item,
\* which is a constraint item and never a column item.
C30_SplitLosesNothing ==
    LET \* how many elements of s equal x
        Count(s, x) == Cardinality({i \in 1..Len(s) : s[i] = x})
        \* r is head, then blanks and commas only, then tail
        SplitsInto(r, head, tail) ==
            /\ head # <<>> /\ tail # <<>>
            /\ Len(head) + Len(tail) <= Len(r)
            /\ SubSeq(r, 1, Len(head)) = head
            /\ SubSeq(r, Len(r) - Len(tail) + 1, Len(r)) = tail
            /\ \A x \in (Len(head) + 1)..(Len(r) - Len(tail)) :
                  IsSpace(r[x]) \/ r[x] = ","
        \* the raw item went whole into one list, or as head and tail into both
        Whole(r) == Count(col_items, r) + Count(constraint_items, r)
        WasSplit(r) ==
            \E h \in Range(col_items), t \in Range(constraint_items) : SplitsInto(r, h, t)
    IN
    HasSplit =>
        /\ \A k \in 1..Len(col_items) : col_items[k] # <<>> /\ col_items[k][1] = "["
        /\ \A k \in 1..Len(raw_items) :
              LET r == raw_items[k]
              IN  \/ /\ (r \in Range(col_items)) # (r \in Range(constraint_items))
                     /\ Whole(r) = Count(raw_items, r)
                  \/ /\ r \notin Range(col_items) /\ r \notin Range(constraint_items)
                     /\ WasSplit(r)
        /\ Len(col_items) + Len(constraint_items)
              = Len(raw_items)
                  + Cardinality({k \in 1..Len(raw_items) :
                        /\ raw_items[k] \notin Range(col_items)
                        /\ raw_items[k] \notin Range(constraint_items)})
        /\ Count(constraint_items, <<>>) = Count(raw_items, <<>>)
        /\ (ItemsPlain /\ ddl.cols[Len(ddl.cols)] # "empty") =>
              raw_items = [k \in 1..Len(ddl.cols) |-> ItemText(ddl.cols[k])]

\* C30 witness: the body "[A] INT, , [B] INT NULL, " has been split: three
\* raw items, the empty one among the constraint items, none for the comma
\* at the end
C30_Witness ==
    /\ HasSplit /\ ddl.kind = "items"
    /\ ddl.cols = <<"ok_a", "empty", "ok_b">> /\ ddl.place = "trailing"
    /\ Len(raw_items) = 3 /\ raw_items[2] = <<>>
    /\ Len(col_items) = 2
    /\ constraint_items = <<(<<>>)>>

=============================================================================
